---- MODULE Spec2Model ----
(***************************************************************************)
(* Skill extraction, persistence and candidate matching of the job board   *)
(* (jobs/services.py, jobs/models.py, jobs/views.py).                      *)
(*                                                                         *)
(* A text is a sequence of one-character strings.  Positions are 0-based   *)
(* as in Python; SubSeq is 1-based, so text[a:b] is SubSeq(text, a+1, b).  *)
(***************************************************************************)
EXTENDS Integers, Sequences, FiniteSets

VARIABLES
    exText,       \* SpecExtract: the text handed to extract_skills
    exTitle,      \* SpecExtract: the job title handed to extract_skills
    exCall,       \* SpecExtract: the last extract_skills call and its result
    jobSkills,    \* table JobSkill: sequence of rows [job, skill_name, weight]
    candSkills,   \* table CandidateSkill: rows [user, skill_name, source, confidence]
    applications, \* table Application: set of rows [job, applicant]
    matchCall,    \* SpecMatch: the last build_candidate_match_payload call
    nlpCache,     \* the lru_cache of get_nlp: CacheMiss or the cached return value
    spacyInstalled, \* whether `import spacy` succeeded (services.py lines 18-21)
    loadCount,    \* number of spacy.load calls made in the process
    thr,          \* SpecNlp: per thread, its place in extract_skills and what it got
    jobRow,       \* Spec: the Job row [title, description, skills_extracted]
    tx,           \* Spec: the save_job_skills call in flight and its transaction
    lastCall,     \* Spec: the last save_job_skills call that ended
    candCall,     \* SpecCand: the last save_candidate_skills_from_text call
    fnCall,       \* SpecWeight, SpecAccumulate: the arguments of the function
                  \* under study and, once called, its result
    applyCall,    \* SpecApply: the apply_job request in flight, or the last one
    saveCalls     \* SpecRace: per connection, its save_job_skills call

(***************************************************************************)
(* Bounds of the model.                                                    *)
(***************************************************************************)
MaxWords == 3          \* words per text drawn in SpecExtract
MaxSkillsArg == 2      \* largest max_skills argument drawn
MaxCandRows == 2       \* CandidateSkill rows per user drawn in SpecMatch
MaxCandCalls == 3      \* save_candidate_skills_from_text calls in SpecCand
MaxCount == 5          \* largest occurrence count drawn in SpecWeight
MaxContextHits == 3    \* largest context-hit count drawn in SpecWeight
MaxPos == 3            \* largest position drawn in SpecWeight
MaxTokens == 6         \* largest token total drawn in SpecWeight
MaxTriples == 3        \* triples fed to the accumulator in SpecAccumulate
MaxApplyCalls == 2     \* apply_job requests in SpecApply
MaxCalls == 2          \* extraction calls per thread in SpecNlp
MaxMinMatch == 1       \* min_match_weight is drawn from 0..MaxMinMatch and 7

(***************************************************************************)
(* Characters and words.                                                   *)
(***************************************************************************)
Python == <<"P", "y", "t", "h", "o", "n">>
Django == <<"D", "j", "a", "n", "g", "o">>
AWS == <<"A", "W", "S">>
Go == <<"G", "o">>
w_django == <<"d", "j", "a", "n", "g", "o">>
w_must == <<"m", "u", "s", "t">>
w_strong == <<"s", "t", "r", "o", "n", "g">>
w_newline == <<"\n">>
EmptyText == <<>>

\* str.lower() on the characters the model uses
LowerChar(c) ==
    CASE c = "P" -> "p"
      [] c = "D" -> "d"
      [] c = "A" -> "a"
      [] c = "W" -> "w"
      [] c = "S" -> "s"
      [] c = "G" -> "g"
      [] OTHER -> c

Lower(s) == [i \in 1..Len(s) |-> LowerChar(s[i])]

\* the characters the regular expression \s and str.strip() treat as whitespace
IsSpace(c) == c \in {" ", "\n", "\t"}

RECURSIVE LStrip(_)
LStrip(s) == IF s # <<>> /\ IsSpace(Head(s)) THEN LStrip(Tail(s)) ELSE s

RECURSIVE RStrip(_)
RStrip(s) ==
    IF s # <<>> /\ IsSpace(s[Len(s)]) THEN RStrip(SubSeq(s, 1, Len(s) - 1)) ELSE s

Strip(s) == RStrip(LStrip(s))

\* re.sub(r"\s+", " ", s): every maximal run of whitespace becomes one space
RECURSIVE CollapseSpaces(_)
CollapseSpaces(s) ==
    IF s = <<>> THEN <<>>
    ELSE IF IsSpace(Head(s))
         THEN <<" ">> \o CollapseSpaces(LStrip(s))
         ELSE <<Head(s)>> \o CollapseSpaces(Tail(s))

normalize_phrase(phrase) ==
    IF phrase = <<>> THEN <<>> ELSE CollapseSpaces(Lower(Strip(phrase)))

\* Python's `p in t` on strings
IsSubstr(p, t) ==
    \E i \in 1..(Len(t) - Len(p) + 1) : SubSeq(t, i, i + Len(p) - 1) = p

\* len(s.split()) for a normalized string (single spaces, none at the ends)
WordCount(s) ==
    IF s = <<>> THEN 0 ELSE Cardinality({i \in 1..Len(s) : s[i] = " "}) + 1

\* s.split() for any string: the maximal runs of non-whitespace
RECURSIVE SplitWords(_, _)
SplitWords(s, cur) ==
    IF s = <<>> THEN (IF cur = <<>> THEN <<>> ELSE <<cur>>)
    ELSE IF IsSpace(Head(s))
         THEN (IF cur = <<>> THEN <<>> ELSE <<cur>>) \o SplitWords(Tail(s), <<>>)
         ELSE SplitWords(Tail(s), Append(cur, Head(s)))

(***************************************************************************)
(* The skill dictionary.  jobs/skills_dictionary.py is not among the       *)
(* sources; ALL_SKILLS stands for its list of canonical names.             *)
(***************************************************************************)
ALL_SKILLS == <<Python, Django, AWS, Go>>

\* SKILL_LOOKUP = {skill.lower(): skill for skill in ALL_SKILLS}, as the
\* sequence of its (key, canonical) items in insertion order: a repeated key
\* keeps its first position and takes the last value.
RECURSIVE LookupItems(_, _)
LookupItems(skills, acc) ==
    IF skills = <<>> THEN acc
    ELSE LET k == Lower(Head(skills))
             hit == {i \in 1..Len(acc) : acc[i].key = k}
         IN  LookupItems(Tail(skills),
                 IF hit = {}
                 THEN Append(acc, [key |-> k, canonical |-> Head(skills)])
                 ELSE [i \in 1..Len(acc) |->
                          IF i \in hit THEN [key |-> k, canonical |-> Head(skills)]
                          ELSE acc[i]])

SKILL_LOOKUP == LookupItems(ALL_SKILLS, <<>>)

CanonicalNames == {SKILL_LOOKUP[i].canonical : i \in 1..Len(SKILL_LOOKUP)}

CONTEXT_KEYWORDS ==
    { <<"r","e","q","u","i","r","e","d">>,
      <<"r","e","q","u","i","r","e","m","e","n","t">>,
      w_must,
      <<"m","a","n","d","a","t","o","r","y">>,
      <<"k","e","y">>,
      <<"e","s","s","e","n","t","i","a","l">>,
      <<"p","r","e","f","e","r","r","e","d">>,
      <<"e","x","p","e","r","t">>,
      <<"e","x","p","e","r","i","e","n","c","e">>,
      <<"p","r","o","v","e","n">>,
      w_strong }

\* the keyword list of the dictionary extractor (services.py line 223)
DICT_CONTEXT_KEYWORDS ==
    { <<"r","e","q","u","i","r","e","d">>,
      <<"e","s","s","e","n","t","i","a","l">>,
      w_must,
      <<"n","e","e","d">>,
      <<"i","m","p","o","r","t","a","n","t">> }

CONTEXT_WINDOW == 50
BASE_SCORE == 5
MAX_WEIGHT == 10
MAX_RETURNED_SKILLS == 15

\* the phrase itself, normalized, taken as the skill name
PhraseAsSkill(phrase) ==
    IF normalize_phrase(phrase) = <<>> THEN "None" ELSE normalize_phrase(phrase)

find_canonical_skill(phrase) ==
    LET normalized == normalize_phrase(phrase)
        exact == {i \in 1..Len(SKILL_LOOKUP) : SKILL_LOOKUP[i].key = normalized}
        loose == {i \in 1..Len(SKILL_LOOKUP) :
                     \/ IsSubstr(SKILL_LOOKUP[i].key, normalized)
                     \/ IsSubstr(normalized, SKILL_LOOKUP[i].key)}
        first(S) == CHOOSE i \in S : \A k \in S : i <= k
    IN  IF normalized = <<>> THEN "None"
        ELSE IF exact # {} THEN SKILL_LOOKUP[first(exact)].canonical
        ELSE IF loose # {} THEN SKILL_LOOKUP[first(loose)].canonical
        ELSE "None"

sentence_has_context(sentence) ==
    \E keyword \in CONTEXT_KEYWORDS : IsSubstr(keyword, normalize_phrase(sentence))

(***************************************************************************)
(* Statistics: the dict `stats` is the sequence of its entries in          *)
(* insertion order, each [skill, count, positions, context_hits].          *)
(***************************************************************************)
\* an accumulator that keeps only the position it was given last
UpdateKeepingLastPosition(stats, skill, position, sentence) ==
    LET hit == {i \in 1..Len(stats) : stats[i].skill = skill}
        bump(e) == [e EXCEPT !.count = @ + 1,
                             !.positions = <<position>>,
                             !.context_hits =
                                 IF sentence_has_context(sentence) THEN @ + 1 ELSE @]
        fresh == [skill |-> skill, count |-> 0, positions |-> <<>>, context_hits |-> 0]
    IN  IF hit = {} THEN Append(stats, bump(fresh))
        ELSE [i \in 1..Len(stats) |-> IF i \in hit THEN bump(stats[i]) ELSE stats[i]]

_update_skill_stats(stats, skill, position, sentence) ==
    LET hit == {i \in 1..Len(stats) : stats[i].skill = skill}
        bump(e) == [e EXCEPT !.count = @ + 1,
                             !.positions = Append(@, position),
                             !.context_hits =
                                 IF sentence_has_context(sentence) THEN @ + 1 ELSE @]
        fresh == [skill |-> skill, count |-> 0, positions |-> <<>>, context_hits |-> 0]
    IN  IF hit = {} THEN Append(stats, bump(fresh))
        ELSE [i \in 1..Len(stats) |-> IF i \in hit THEN bump(stats[i]) ELSE stats[i]]

Min2(a, b) == IF a <= b THEN a ELSE b
Max2(a, b) == IF a >= b THEN a ELSE b

SeqMin(s) == CHOOSE m \in {s[i] : i \in 1..Len(s)} : \A i \in 1..Len(s) : m <= s[i]

\* q/4 cut to an integer
FloorQuarters(q) == q \div 4

\* Python 3 round() of q/4 to an integer: to nearest, ties to the even one
RoundQuarters(q) ==
    LET f == q \div 4
        r == q % 4
    IN  IF r < 2 THEN f
        ELSE IF r > 2 THEN f + 1
        ELSE IF f % 2 = 0 THEN f ELSE f + 1

\* _calculate_weight, in quarters where the code uses floats (0.75 = 3/4)
_calculate_weight(skill, data, total_tokens, job_title) ==
    LET frequency_bonus4 == Min2(data.count * 3, 12)
        earliest_position == IF data.positions # <<>> THEN SeqMin(data.positions) ELSE 0
        \* relative_position <= 0.2, with relative_position = 0 when total_tokens = 0
        position_bonus == IF total_tokens = 0 \/ earliest_position * 5 <= total_tokens
                          THEN 1 ELSE 0
        context_bonus == Min2(data.context_hits, 2)
        title_bonus == IF IsSubstr(Lower(skill), normalize_phrase(job_title)) THEN 2 ELSE 0
        weight4 == 4 * BASE_SCORE + frequency_bonus4
                   + 4 * (position_bonus + context_bonus + title_bonus)
        weight == Min2(RoundQuarters(weight4), MAX_WEIGHT)
    IN  [skill |-> skill, weight |-> weight,
         confidence |-> Min2(MAX_WEIGHT, weight + context_bonus)]

\* the scored list left in the insertion order of stats
KeepInsertionOrder(s) == s

\* list.sort(key=weight, reverse=True): stable, by insertion
RECURSIVE SortByWeightDesc(_)
SortByWeightDesc(s) ==
    IF s = <<>> THEN <<>>
    ELSE LET rest == SortByWeightDesc(SubSeq(s, 1, Len(s) - 1))
             x == s[Len(s)]
             \* x goes after every element whose weight is >= its own
             k == Cardinality({i \in 1..Len(rest) : rest[i].weight >= x.weight})
         IN  SubSeq(rest, 1, k) \o <<x>> \o SubSeq(rest, k + 1, Len(rest))

\* a slice one entry too long
TruncateOffByOne(scored, max_skills) == SubSeq(scored, 1, Min2(max_skills + 1, Len(scored)))

\* scored[:max_skills] for max_skills >= 0
Truncate(scored, max_skills) == SubSeq(scored, 1, Min2(max_skills, Len(scored)))

Score(stats, total_tokens, job_title) ==
    [i \in 1..Len(stats) |->
        _calculate_weight(stats[i].skill, stats[i], total_tokens, job_title)]

(***************************************************************************)
(* The dictionary extractor.                                               *)
(***************************************************************************)
\* [m.start() for m in re.finditer(re.escape(key), text)]: the non-overlapping
\* occurrences from the left, 0-based, searching from offset `from`
RECURSIVE FindAll(_, _, _)
FindAll(key, text, from) ==
    LET starts == {i \in from..(Len(text) - Len(key)) :
                      SubSeq(text, i + 1, i + Len(key)) = key}
    IN  IF starts = {} THEN <<>>
        ELSE LET p == CHOOSE i \in starts : \A k \in starts : i <= k
             IN  <<p>> \o FindAll(key, text, p + Len(key))

DictContextHits(key, text, occurrences) ==
    Cardinality({n \in 1..Len(occurrences) :
        LET pos == occurrences[n]
            start == Max2(0, pos - CONTEXT_WINDOW)
            end == Min2(Len(text), pos + Len(key) + CONTEXT_WINDOW)
            context_text == SubSeq(text, start + 1, end)
        IN  \E keyword \in DICT_CONTEXT_KEYWORDS : IsSubstr(keyword, context_text)})

\* the loop over SKILL_LOOKUP.items() of extract_skills_dictionary; an entry
\* of stats is assigned, so a canonical name met again is overwritten in place
RECURSIVE DictStats(_, _, _)
DictStats(items, text, stats) ==
    IF items = <<>> THEN stats
    ELSE LET key == Head(items).key
             canonical == Head(items).canonical
             occurrences == FindAll(key, text, 0)
             entry == [skill |-> canonical, count |-> Len(occurrences),
                       positions |-> occurrences,
                       context_hits |-> DictContextHits(key, text, occurrences)]
             hit == {i \in 1..Len(stats) : stats[i].skill = canonical}
         IN  DictStats(Tail(items), text,
                 IF occurrences = <<>> THEN stats
                 ELSE IF hit = {} THEN Append(stats, entry)
                 ELSE [i \in 1..Len(stats) |->
                          IF i \in hit
                          THEN [entry EXCEPT !.context_hits = @ + stats[i].context_hits]
                          ELSE stats[i]])

extract_skills_dictionary(text, job_title, max_skills) ==
    IF text = <<>> THEN <<>>
    ELSE LET normalized_text == normalize_phrase(text)
             stats == DictStats(SKILL_LOOKUP, normalized_text, <<>>)
         IN  IF stats = <<>> THEN <<>>
             ELSE Truncate(SortByWeightDesc(
                      Score(stats, WordCount(normalized_text), job_title)), max_skills)

(***************************************************************************)
(* The linguistic model.  spaCy is an external library: get_nlp() returns  *)
(* "None" or one of a few analyzers, each a fixed function from a text to  *)
(* a document [len, ents, noun_chunks, tokens].  A span is [text, start,   *)
(* sent]; a token is [pos_, lemma_, i, sent].                              *)
(*   "tok": every word is a NOUN token whose lemma is the lowercase word;  *)
(*   "ent": as "tok", and every capitalised word is a named entity and the *)
(*          whole text is one noun chunk;                                  *)
(*   "nil": every word is a VERB token: no signal at all.                  *)
(***************************************************************************)
Analyzers == {"tok", "ent", "nil"}
NlpValues == Analyzers \cup {"None"}

Doc(nlp, text) ==
    LET words == SplitWords(text, <<>>)
        idx == 1..Len(words)
        caps == {i \in idx : LowerChar(words[i][1]) # words[i][1]}
        RECURSIVE Pick(_)
        Pick(i) == IF i > Len(words) THEN <<>>
                   ELSE (IF i \in caps
                         THEN <<[text |-> words[i], start |-> i - 1, sent |-> text]>>
                         ELSE <<>>) \o Pick(i + 1)
    IN  [len |-> Len(words),
         ents |-> IF nlp = "ent" THEN Pick(1) ELSE <<>>,
         noun_chunks |-> IF nlp = "ent" /\ words # <<>>
                         THEN <<[text |-> text, start |-> 0, sent |-> text]>>
                         ELSE <<>>,
         tokens |-> [i \in idx |->
                        [pos_ |-> IF nlp = "nil" THEN "VERB" ELSE "NOUN",
                         lemma_ |-> Lower(words[i]), i |-> i - 1, sent |-> text]]]

\* the loops over doc.ents and doc.noun_chunks
RECURSIVE AccumulateSpans(_, _)
AccumulateSpans(spans, stats) ==
    IF spans = <<>> THEN stats
    ELSE LET skill == find_canonical_skill(Head(spans).text)
         IN  AccumulateSpans(Tail(spans),
                 IF skill # "None"
                 THEN _update_skill_stats(stats, skill, Head(spans).start, Head(spans).sent)
                 ELSE stats)

\* the loop over the tokens of doc
RECURSIVE AccumulateTokens(_, _)
AccumulateTokens(tokens, stats) ==
    IF tokens = <<>> THEN stats
    ELSE LET token == Head(tokens)
             skill == find_canonical_skill(token.lemma_)
         IN  AccumulateTokens(Tail(tokens),
                 IF token.pos_ \in {"NOUN", "PROPN"} /\ skill # "None"
                 THEN _update_skill_stats(stats, skill, token.i, token.sent)
                 ELSE stats)

NlpStats(doc) ==
    AccumulateTokens(doc.tokens,
        AccumulateSpans(doc.noun_chunks, AccumulateSpans(doc.ents, <<>>)))

\* the linguistic extractor giving up when the model finds nothing
NlpWithoutFallback(nlp, text, job_title, max_skills) ==
    IF text = <<>> \/ nlp = "None" THEN <<>>
    ELSE IF NlpStats(Doc(nlp, text)) = <<>> THEN <<>>
    ELSE Truncate(SortByWeightDesc(Score(NlpStats(Doc(nlp, text)), Doc(nlp, text).len,
                                         job_title)), max_skills)

\* extract_skills_with_nlp; nlp is what get_nlp() returned
extract_skills_with_nlp(nlp, text, job_title, max_skills) ==
    IF text = <<>> THEN <<>>
    ELSE IF nlp = "None" THEN extract_skills_dictionary(text, job_title, max_skills)
    ELSE LET doc == Doc(nlp, text)
             stats == NlpStats(doc)
         IN  IF stats = <<>> THEN extract_skills_dictionary(text, job_title, max_skills)
             ELSE Truncate(SortByWeightDesc(Score(stats, doc.len, job_title)), max_skills)

extract_skills(nlp, text, job_title, max_skills, force_dictionary) ==
    IF force_dictionary THEN extract_skills_dictionary(text, job_title, max_skills)
    ELSE extract_skills_with_nlp(nlp, text, job_title, max_skills)

extract_candidate_skills(nlp, text, max_skills) ==
    extract_skills(nlp, text, EmptyText, max_skills, FALSE)

(***************************************************************************)
(* The tables.  Users, jobs and companies are the primary keys of rows the *)
(* skill services only read: jobs 1 and 2 belong to company "c1", job 3 to *)
(* company "c2".                                                           *)
(***************************************************************************)
Users == {1, 2}
Jobs == {1, 2, 3}
JobCompany(j) == IF j = 3 THEN "c2" ELSE "c1"
Sources == {"cover_letter", "resume", "manual"}
w_python == <<"p", "y", "t", "h", "o", "n">>

\* ORDER BY skill_name: the rank of a name in the byte order of its characters
NameOrder == <<AWS, Django, Go, Python, w_python>>
NameRank(n) == CHOOSE i \in 1..Len(NameOrder) : NameOrder[i] = n

\* ORDER BY: a stable sort of keyed rows [k, row] on k, ascending
RECURSIVE SortKeyed(_)
SortKeyed(keyed) ==
    IF keyed = <<>> THEN <<>>
    ELSE LET rest == SortKeyed(SubSeq(keyed, 1, Len(keyed) - 1))
             x == keyed[Len(keyed)]
             n == Cardinality({i \in 1..Len(rest) : rest[i].k <= x.k})
         IN  SubSeq(rest, 1, n) \o <<x>> \o SubSeq(rest, n + 1, Len(rest))

Unkeyed(sorted) == [i \in 1..Len(sorted) |-> sorted[i].row]

\* job.job_skills.all(): JobSkill.Meta.ordering = ['-weight', 'skill_name']
JobSkillKey(r) == (MAX_WEIGHT - r.weight) * (Len(NameOrder) + 1) + NameRank(r.skill_name)
job_skills_all(table, job) ==
    LET OfJob(r) == r.job = job
        rows == SelectSeq(table, OfJob)
    IN  Unkeyed(SortKeyed([i \in 1..Len(rows) |->
                              [k |-> JobSkillKey(rows[i]), row |-> rows[i]]]))

\* candidate.candidate_skills.all(): CandidateSkill.Meta.ordering = ['skill_name']
CandSkillKey(r) == NameRank(r.skill_name)
candidate_skills_all(table, user) ==
    LET OfUser(r) == r.user = user
        rows == SelectSeq(table, OfUser)
    IN  Unkeyed(SortKeyed([i \in 1..Len(rows) |->
                              [k |-> CandSkillKey(rows[i]), row |-> rows[i]]]))

\* the elements of a set of integers, ascending
RECURSIVE Ascending(_)
Ascending(S) ==
    IF S = {} THEN <<>>
    ELSE LET m == CHOOSE x \in S : \A y \in S : x <= y
         IN  <<m>> \o Ascending(S \ {m})

\* a pool of everyone who applied anywhere, whatever the company of the job
ApplicantsOfAnyCompany(apps, job) ==
    LET applicant_ids == {a.applicant : a \in apps}
        n == Cardinality(applicant_ids)
    IN  {pool \in [1..n -> applicant_ids] :
            \A i, j \in 1..n : pool[i] = pool[j] => i = j}

\* get_company_candidate_queryset: the distinct applicants of the jobs of
\* job.company.  The queryset has no ORDER BY, so the database may enumerate
\* it in any order: the set of the enumerations it can give.
get_company_candidate_queryset(apps, job) ==
    LET company_job_ids == {j \in Jobs : JobCompany(j) = JobCompany(job)}
        applicant_ids == {a.applicant : a \in {x \in apps : x.job \in company_job_ids}}
        n == Cardinality(applicant_ids)
    IN  {pool \in [1..n -> applicant_ids] :
            \A i, j \in 1..n : pool[i] = pool[j] => i = j}

RECURSIVE SumWeights(_)
SumWeights(rows) == IF rows = <<>> THEN 0 ELSE Head(rows).weight + SumWeights(Tail(rows))

\* the dict {r.skill_name.lower(): r for r in rows}: one item per key, at the place
\* of the key's first row, holding the key's last row
RECURSIVE LowerNameDict(_, _)
LowerNameDict(rows, acc) ==
    IF rows = <<>> THEN acc
    ELSE LET k == Lower(Head(rows).skill_name)
             hit == {i \in 1..Len(acc) : acc[i].key = k}
         IN  LowerNameDict(Tail(rows),
                 IF hit = {} THEN Append(acc, [key |-> k, val |-> Head(rows)])
                 ELSE [i \in 1..Len(acc) |->
                          IF i \in hit THEN [key |-> k, val |-> Head(rows)] ELSE acc[i]])

\* the score cut to a tenth instead of rounded
FitScoreFloor(matched_weight, total_weight) == (1000 * matched_weight) \div total_weight

\* round(x, 1) of x = (matched / total) * 100, in tenths: to nearest, ties to
\* the even tenth (the ties that occur, total = 16 or 32, are exact floats)
FitScoreTenths(matched_weight, total_weight) ==
    LET n == 1000 * matched_weight
        f == n \div total_weight
        r2 == 2 * (n % total_weight)
    IN  IF r2 < total_weight THEN f
        ELSE IF r2 > total_weight THEN f + 1
        ELSE IF f % 2 = 0 THEN f ELSE f + 1

\* the number of job skills taken for their total weight
TotalWeightCount(job_skills) == IF Len(job_skills) = 0 THEN 1 ELSE Len(job_skills)

\* total_weight = sum(skill.weight for skill in job_skills) or 1
TotalWeight(job_skills) ==
    IF SumWeights(job_skills) = 0 THEN 1 ELSE SumWeights(job_skills)

\* the matched job-side items of one candidate: the loop over job_skill_lookup
MatchedItems(job_skill_lookup, candidate_skill_lookup) ==
    LET Hit(item) == \E i \in 1..Len(candidate_skill_lookup) :
                         candidate_skill_lookup[i].key = item.key
    IN  SelectSeq(job_skill_lookup, Hit)

RECURSIVE SumItemWeights(_)
SumItemWeights(items) ==
    IF items = <<>> THEN 0 ELSE Head(items).val.weight + SumItemWeights(Tail(items))

\* no threshold at all
PassesAlways(matched_weight, min_match_weight) == TRUE

\* the candidate passes `if matched_weight < min_match_weight: continue`
PassesThreshold(matched_weight, min_match_weight) == ~(matched_weight < min_match_weight)

\* the body of the loop over the candidates: <<>> when the candidate is
\* skipped, else the one entry appended
MatchEntry(candidate, job_skills, cand_table, min_match_weight) ==
    LET candidate_skills == candidate_skills_all(cand_table, candidate)
        job_skill_lookup == LowerNameDict(job_skills, <<>>)
        candidate_skill_lookup == LowerNameDict(candidate_skills, <<>>)
        matched == MatchedItems(job_skill_lookup, candidate_skill_lookup)
        matched_weight == SumItemWeights(matched)
        total_weight == TotalWeight(job_skills)
        NameOf(item) ==
            (CHOOSE c \in {candidate_skill_lookup[i] : i \in 1..Len(candidate_skill_lookup)} :
                 c.key = item.key).val.skill_name
    IN  IF candidate_skills = <<>> THEN <<>>
        ELSE IF ~PassesThreshold(matched_weight, min_match_weight) THEN <<>>
        ELSE <<[candidate |-> candidate,
                fit_score |-> FitScoreTenths(matched_weight, total_weight),
                matched_weight |-> matched_weight,
                total_weight |-> total_weight,
                matched_skills |-> [i \in 1..Len(matched) |-> NameOf(matched[i])]]>>

\* an ascending sort read backwards: equal scores come out in reverse order
RECURSIVE SortAscendingReversed(_)
SortAscendingReversed(s) ==
    IF s = <<>> THEN <<>>
    ELSE LET rest == SortAscendingReversed(SubSeq(s, 1, Len(s) - 1))
             x == s[Len(s)]
             k == Cardinality({i \in 1..Len(rest) : rest[i].fit_score > x.fit_score})
         IN  SubSeq(rest, 1, k) \o <<x>> \o SubSeq(rest, k + 1, Len(rest))

\* candidates.sort(key=fit_score, reverse=True): stable
RECURSIVE SortByFitDesc(_)
SortByFitDesc(s) ==
    IF s = <<>> THEN <<>>
    ELSE LET rest == SortByFitDesc(SubSeq(s, 1, Len(s) - 1))
             x == s[Len(s)]
             k == Cardinality({i \in 1..Len(rest) : rest[i].fit_score >= x.fit_score})
         IN  SubSeq(rest, 1, k) \o <<x>> \o SubSeq(rest, k + 1, Len(rest))

RECURSIVE MatchEntries(_, _, _, _)
MatchEntries(pool, job_skills, cand_table, min_match_weight) ==
    IF pool = <<>> THEN <<>>
    ELSE MatchEntry(Head(pool), job_skills, cand_table, min_match_weight)
         \o MatchEntries(Tail(pool), job_skills, cand_table, min_match_weight)

\* the payload built without `if not job_skills: return []`
MatchWithoutSkillGuard(job, min_match_weight, job_table, cand_table, pool) ==
    SortByFitDesc(MatchEntries(pool, job_skills_all(job_table, job), cand_table,
                               min_match_weight))

\* build_candidate_match_payload; pool is the enumeration the database gave
\* for get_company_candidate_queryset(job)
build_candidate_match_payload(job, min_match_weight, job_table, cand_table, pool) ==
    LET job_skills == job_skills_all(job_table, job)
    IN  IF job_skills = <<>> THEN <<>>
        ELSE SortByFitDesc(MatchEntries(pool, job_skills, cand_table, min_match_weight))

(***************************************************************************)
(* Input texts: up to n words of a vocabulary joined by single spaces; the *)
(* newline word gives leading, trailing and repeated whitespace.           *)
(***************************************************************************)
Vocabulary == {Python, w_django, AWS, w_must, w_newline}

RECURSIVE Join(_)
Join(ws) ==
    IF ws = <<>> THEN <<>>
    ELSE IF Len(ws) = 1 THEN ws[1]
    ELSE ws[1] \o <<" ">> \o Join(Tail(ws))

TextsOver(vocab, n) ==
    {Join(ws) : ws \in UNION {[1..k -> vocab] : k \in 0..n}}

(***************************************************************************)
(* SpecExtract: extract_skills as a function of its arguments.             *)
(***************************************************************************)
NoCall == [done |-> FALSE]

nlpVars == <<nlpCache, spacyInstalled, loadCount, thr>>

NoneValue == [model |-> "None", id |-> 0]   \* the return value None
CacheMiss == [model |-> "Miss", id |-> 0]   \* no entry in the cache
NoResult == [model |-> "none", id |-> 0]    \* get_nlp not called, or not back yet

IdleTx == [pc |-> "idle"]
NoSave == [status |-> "none"]
NoCandCall == [n |-> 0, status |-> "none"]
NoFnCall == [done |-> FALSE]
NoApply == [pc |-> "idle", n |-> 0]
NoSaveCalls == [backend |-> "none"]
jobVars == <<jobRow, tx, lastCall, candCall, fnCall, applyCall, saveCalls>>

\* no job under extraction
InitJobIdle ==
    /\ jobRow = [title |-> EmptyText, description |-> EmptyText, skills_extracted |-> FALSE]
    /\ tx = IdleTx
    /\ lastCall = NoSave
    /\ candCall = NoCandCall
    /\ fnCall = NoFnCall
    /\ applyCall = NoApply
    /\ saveCalls = NoSaveCalls

\* the process before any extraction call
InitNlpIdle ==
    /\ nlpCache = CacheMiss /\ spacyInstalled = TRUE /\ loadCount = 0
    /\ thr = [t \in {"t1", "t2"} |->
                 [pc |-> "idle", result |-> NoResult, path |-> "none", calls |-> 0]]

InitExtract ==
    /\ exText \in TextsOver(Vocabulary, MaxWords)
    /\ exTitle \in TextsOver({Python, AWS}, 1)
    /\ exCall = NoCall
    /\ jobSkills = <<>> /\ candSkills = <<>> /\ applications = {} /\ matchCall = NoCall
    /\ InitNlpIdle /\ InitJobIdle

ExtractSkills ==
    \E max_skills \in 0..MaxSkillsArg, force_dictionary \in BOOLEAN, nlp \in NlpValues :
        /\ exCall = NoCall
        /\ exCall' = [done |-> TRUE,
                      max_skills |-> max_skills,
                      force_dictionary |-> force_dictionary,
                      nlp |-> nlp,
                      result |-> extract_skills(nlp, exText, exTitle, max_skills,
                                                force_dictionary)]
        /\ UNCHANGED <<exText, exTitle, jobSkills, candSkills, applications, matchCall, nlpVars, jobVars>>

(***************************************************************************)
(* SpecNlp: threads of one process calling extract_skills.  get_nlp is     *)
(* wrapped by functools.lru_cache, which looks the key up, calls the       *)
(* wrapped function on a miss without holding a lock, and stores the       *)
(* result afterwards unless the key was stored meanwhile; the caller gets  *)
(* the result of its own call.  A loaded model is [model, id], id being    *)
(* the ordinal of the spacy.load call that made it.                        *)
(***************************************************************************)
Threads == {"t1", "t2"}
IdleThread == [pc |-> "idle", result |-> NoResult, path |-> "none", calls |-> 0]

InitOther ==
    /\ exText = EmptyText /\ exTitle = EmptyText /\ exCall = NoCall
    /\ jobSkills = <<>> /\ candSkills = <<>> /\ applications = {} /\ matchCall = NoCall
    /\ InitJobIdle

InitNlp ==
    /\ nlpCache = CacheMiss
    /\ spacyInstalled \in BOOLEAN
    /\ loadCount = 0
    /\ thr = [t \in Threads |-> IdleThread]
    /\ InitOther

otherVars == <<exText, exTitle, exCall, jobSkills, candSkills, applications, matchCall,
               jobRow, tx, lastCall, candCall, fnCall, applyCall, saveCalls>>

\* what the body of get_nlp returns: None without spaCy or when spacy.load
\* raises, else the model that load number `id` made
get_nlp_body(installed, outcome, id) ==
    IF ~installed \/ outcome = "None" THEN NoneValue ELSE [model |-> outcome, id |-> id]

\* an entry that asks get_nlp also when the dictionary is forced
EntryIgnoringForce(force_dictionary, text_empty) ==
    IF text_empty THEN "returned" ELSE "get_nlp"

\* where extract_skills goes first: with force_dictionary straight through
\* extract_skills_dictionary to its return, else into extract_skills_with_nlp,
\* which returns [] for an empty text and calls get_nlp otherwise
ExtractSkillsEntry(force_dictionary, text_empty) ==
    IF force_dictionary \/ text_empty THEN "returned" ELSE "get_nlp"

\* extract_skills(text, force_dictionary=...) entered by thread t
CallExtractSkills(t) ==
    \E force_dictionary \in BOOLEAN, text_empty \in BOOLEAN :
        /\ thr[t].pc \in {"idle", "returned"}
        /\ thr[t].calls < MaxCalls
        /\ thr' = [thr EXCEPT ![t] =
               [pc |-> ExtractSkillsEntry(force_dictionary, text_empty),
                result |-> NoResult,
                path |-> IF force_dictionary THEN "dictionary"
                         ELSE IF text_empty THEN "empty" ELSE "none",
                calls |-> thr[t].calls + 1]]
        /\ UNCHANGED <<nlpCache, spacyInstalled, loadCount, otherVars>>

\* the lru_cache wrapper looks the key up
CacheLookup(t) ==
    /\ thr[t].pc = "get_nlp"
    /\ thr' = [thr EXCEPT ![t] =
           IF nlpCache = CacheMiss THEN [@ EXCEPT !.pc = "miss"]
           ELSE [@ EXCEPT !.pc = "have", !.result = nlpCache]]
    /\ UNCHANGED <<nlpCache, spacyInstalled, loadCount, otherVars>>

\* the body of get_nlp, run on a miss: None without spaCy, else spacy.load,
\* which returns a new model or raises (None)
LoadModel(t) ==
    /\ thr[t].pc = "miss"
    /\ loadCount' = IF spacyInstalled THEN loadCount + 1 ELSE loadCount
    /\ \E outcome \in {"ent", "None"} :
          thr' = [thr EXCEPT ![t] = [@ EXCEPT !.pc = "store", !.result =
                    get_nlp_body(spacyInstalled, outcome, loadCount + 1)]]
    /\ UNCHANGED <<nlpCache, spacyInstalled, otherVars>>

\* the wrapper stores the result unless the key is in the cache by now
CacheStore(t) ==
    /\ thr[t].pc = "store"
    /\ nlpCache' = IF nlpCache = CacheMiss THEN thr[t].result ELSE nlpCache
    /\ thr' = [thr EXCEPT ![t] = [@ EXCEPT !.pc = "have"]]
    /\ UNCHANGED <<spacyInstalled, loadCount, otherVars>>

\* `if not nlp: return extract_skills_dictionary(...)`, else the model is used
UseModel(t) ==
    /\ thr[t].pc = "have"
    /\ thr' = [thr EXCEPT ![t] = [@ EXCEPT !.pc = "returned", !.path =
                  IF thr[t].result = NoneValue THEN "dictionary" ELSE "nlp"]]
    /\ UNCHANGED <<nlpCache, spacyInstalled, loadCount, otherVars>>

NextNlp ==
    \E t \in Threads :
        \/ CallExtractSkills(t)
        \/ CacheLookup(t)
        \/ LoadModel(t)
        \/ CacheStore(t)
        \/ UseModel(t)

(***************************************************************************)
(* SpecMatch: build_candidate_match_payload over stored skill sets.        *)
(***************************************************************************)
\* the weights drawn for the rows of job 1, per skill of MatchSkillNames
\* (-1: the job has no row for the skill)
JobWeightChoices == <<{-1, 0, 2, 8}, {-1, 0, 6}, {-1, 0, 2}>>
MatchSkillNames == <<Python, Django, AWS>>
CandRowChoices ==
    { [skill_name |-> Python, source |-> "cover_letter", confidence |-> 8],
      [skill_name |-> w_python, source |-> "manual", confidence |-> 5],
      [skill_name |-> Django, source |-> "cover_letter", confidence |-> 7],
      [skill_name |-> AWS, source |-> "resume", confidence |-> 6] }
AppliedChoices == {{}, {3}, {1, 2}}
MinMatchVals == (0..MaxMinMatch) \cup {7}

\* the rows [user, ...c] for c in held[user], by user and name
CandRowsOf(held) ==
    LET all == UNION {{[user |-> u, skill_name |-> c.skill_name, source |-> c.source,
                        confidence |-> c.confidence] : c \in held[u]} : u \in Users}
        RowKey(r) == r.user * 10 + NameRank(r.skill_name)
        RowAt(k) == CHOOSE r \in all : RowKey(r) = k
        keys == Ascending({RowKey(r) : r \in all})
    IN  [i \in 1..Len(keys) |-> RowAt(keys[i])]

InitMatch ==
    /\ \E w1 \in JobWeightChoices[1], w2 \in JobWeightChoices[2], w3 \in JobWeightChoices[3] :
          LET w == <<w1, w2, w3>>
              present == Ascending({i \in 1..Len(MatchSkillNames) : w[i] # -1})
          IN  jobSkills = [k \in 1..Len(present) |->
                              [job |-> 1, skill_name |-> MatchSkillNames[present[k]],
                               weight |-> w[present[k]]]]
    /\ \E held \in [Users -> {S \in SUBSET CandRowChoices : Cardinality(S) <= MaxCandRows}] :
          candSkills = CandRowsOf(held)
    /\ \E applied \in [Users -> AppliedChoices] :
          applications = UNION {{[job |-> j, applicant |-> u] : j \in applied[u]} : u \in Users}
    /\ matchCall = NoCall
    /\ exText = EmptyText /\ exTitle = EmptyText /\ exCall = NoCall
    /\ InitNlpIdle /\ InitJobIdle

BuildCandidateMatchPayload ==
    \E job \in {1}, min_match_weight \in MinMatchVals :
      \E pool \in get_company_candidate_queryset(applications, job) :
        /\ matchCall = NoCall
        /\ matchCall' = [done |-> TRUE, job |-> job, min_match_weight |-> min_match_weight,
                         pool |-> pool,
                         result |-> build_candidate_match_payload(
                                        job, min_match_weight, jobSkills, candSkills, pool)]
        /\ UNCHANGED <<jobSkills, candSkills, applications, exText, exTitle, exCall, nlpVars, jobVars>>

NextMatch == BuildCandidateMatchPayload

(***************************************************************************)
(* Spec: save_job_skills on job 1, one request at a time.  The statements  *)
(* of the `with transaction.atomic()` block act on a working copy of the   *)
(* JobSkill table, which replaces the committed table when the block is    *)
(* left and is dropped when a statement raises or the process dies.        *)
(***************************************************************************)
StoreJob == 1
\* the skills of job 2, extracted earlier: save_job_skills(job 1) leaves them
FrameRow == [job |-> 2, skill_name |-> AWS, weight |-> 7]
\* descriptions: none, one without a skill, one skill, two skills
DescTexts == {EmptyText, w_must, Python, Join(<<Python, w_django>>)}
\* what spacy.load gives in Spec: a model with entities, or an exception
LoadOutcomes == {"ent", "None"}
JobTitles == {Python}
SaveMaxSkills == {1, MAX_RETURNED_SKILLS}

InitJob ==
    /\ jobRow \in [title : JobTitles, description : DescTexts, skills_extracted : {FALSE}]
    /\ jobSkills = <<FrameRow>>
    /\ tx = IdleTx
    /\ lastCall = NoSave
    /\ nlpCache = CacheMiss /\ spacyInstalled = TRUE /\ loadCount = 0
    /\ thr = [t \in Threads |-> IdleThread]
    /\ exText = EmptyText /\ exTitle = EmptyText /\ exCall = NoCall
    /\ candSkills = <<>> /\ applications = {} /\ matchCall = NoCall
    /\ candCall = NoCandCall
    /\ fnCall = NoFnCall
    /\ applyCall = NoApply
    /\ saveCalls = NoSaveCalls

frameVars == <<exText, exTitle, exCall, candSkills, applications, matchCall, thr,
               spacyInstalled, candCall, fnCall, applyCall, saveCalls>>

\* Job.save() of the posting form or the ORM: title and description change
JobSave ==
    \E title \in JobTitles, description \in DescTexts :
        /\ tx = IdleTx
        /\ jobRow' = [jobRow EXCEPT !.title = title, !.description = description]
        /\ lastCall' = IF lastCall = NoSave THEN lastCall
                       ELSE [lastCall EXCEPT !.fresh =
                                @ /\ title = jobRow.title /\ description = jobRow.description]
        /\ UNCHANGED <<jobSkills, tx, nlpCache, loadCount, frameVars>>

\* whether this call repeats the last one: that one returned, with the same
\* arguments, and title and description were not saved since
Repeats(force_dictionary, max_skills) ==
    /\ lastCall.status = "returned"
    /\ lastCall.fresh
    /\ lastCall.force_dictionary = force_dictionary
    /\ lastCall.max_skills = max_skills

\* save_job_skills on a job without description (lines 385-388)
SaveJobSkillsNoDescription ==
    \E force_dictionary \in BOOLEAN, max_skills \in SaveMaxSkills :
        /\ tx = IdleTx
        /\ jobRow.description = EmptyText
        /\ jobRow' = [jobRow EXCEPT !.skills_extracted = FALSE]
        /\ lastCall' = [status |-> "returned", empty |-> TRUE,
                        force_dictionary |-> force_dictionary, max_skills |-> max_skills,
                        payload |-> <<>>, fresh |-> TRUE,
                        repeat |-> Repeats(force_dictionary, max_skills),
                        old |-> IF Repeats(force_dictionary, max_skills)
                                THEN jobSkills ELSE <<>>,
                        stage |-> [pc |-> "return", i |-> 0]]
        /\ UNCHANGED <<jobSkills, tx, nlpCache, loadCount, frameVars>>

\* get_nlp() called by one request at a time: the cached value, else the
\* value the body returns, which is cached
get_nlp(cache, installed, outcome, id) ==
    IF cache # CacheMiss THEN cache ELSE get_nlp_body(installed, outcome, id)

\* save_job_skills up to the atomic block (lines 390-397)
SaveJobSkillsBegin ==
    \E force_dictionary \in BOOLEAN, max_skills \in SaveMaxSkills, outcome \in LoadOutcomes :
        LET nlp == IF force_dictionary THEN nlpCache
                   ELSE get_nlp(nlpCache, spacyInstalled, outcome, loadCount + 1)
        IN  /\ tx = IdleTx
            /\ jobRow.description # EmptyText
            /\ nlpCache' = nlp
            /\ loadCount' = IF ~force_dictionary /\ nlpCache = CacheMiss /\ spacyInstalled
                            THEN loadCount + 1 ELSE loadCount
            /\ tx' = [pc |-> "delete",
                      force_dictionary |-> force_dictionary, max_skills |-> max_skills,
                      payload |-> extract_skills(nlp.model, jobRow.description, jobRow.title,
                                                 max_skills, force_dictionary),
                      i |-> 1,
                      work |-> jobSkills,
                      skills_extracted |-> jobRow.skills_extracted,
                      repeat |-> Repeats(force_dictionary, max_skills),
                      old |-> jobSkills]
            /\ UNCHANGED <<jobRow, jobSkills, lastCall, frameVars>>

\* what the other connections see after a statement of the atomic block
AutocommitAfterStatement(committed, work) == work

CommittedAfterStatement(committed, work) == committed

\* a delete that leaves the rows in place
RowsKept(table, j) == table

\* job.job_skills.all().delete()
RowsAfterDelete(table, j) ==
    LET Other(r) == r.job # j IN SelectSeq(table, Other)

TxDelete ==
    /\ tx.pc = "delete"
    /\ tx' = [tx EXCEPT !.pc = "create", !.work = RowsAfterDelete(tx.work, StoreJob)]
    /\ jobSkills' = CommittedAfterStatement(jobSkills, RowsAfterDelete(tx.work, StoreJob))
    /\ UNCHANGED <<jobRow, lastCall, nlpCache, loadCount, frameVars>>

\* unique_together = ['job', 'skill_name']
UniqueViolation(table, row) ==
    \E i \in 1..Len(table) : table[i].job = row.job /\ table[i].skill_name = row.skill_name

Ended(status, stage) ==
    [status |-> status, empty |-> FALSE,
     force_dictionary |-> tx.force_dictionary, max_skills |-> tx.max_skills,
     payload |-> tx.payload, fresh |-> TRUE, repeat |-> tx.repeat,
     old |-> IF tx.repeat \/ status # "returned" THEN tx.old ELSE <<>>,
     stage |-> stage]

\* JobSkill.objects.create(...) for the next entry of the payload; a second
\* row for (job, skill_name) raises IntegrityError, which leaves the block
TxCreate ==
    /\ tx.pc = "create"
    /\ tx.i <= Len(tx.payload)
    /\ LET row == [job |-> StoreJob, skill_name |-> tx.payload[tx.i].skill,
                   weight |-> tx.payload[tx.i].weight]
       IN  IF UniqueViolation(tx.work, row)
           THEN /\ tx' = IdleTx
                /\ lastCall' = Ended("integrity", [pc |-> "create", i |-> tx.i])
                /\ UNCHANGED jobSkills
           ELSE /\ tx' = [tx EXCEPT !.i = @ + 1, !.work = Append(@, row)]
                /\ jobSkills' = CommittedAfterStatement(jobSkills, Append(tx.work, row))
                /\ UNCHANGED lastCall
    /\ UNCHANGED <<jobRow, nlpCache, loadCount, frameVars>>

\* jobRow.skills_extracted = bool(skills_payload); job.save(update_fields=[...])
TxSaveJob ==
    /\ tx.pc = "create"
    /\ tx.i > Len(tx.payload)
    /\ tx' = [tx EXCEPT !.pc = "commit", !.skills_extracted = (tx.payload # <<>>)]
    /\ UNCHANGED <<jobRow, jobSkills, lastCall, nlpCache, loadCount, frameVars>>

\* the atomic block is left: commit, and save_job_skills returns the payload
TxCommit ==
    /\ tx.pc = "commit"
    /\ jobSkills' = tx.work
    /\ jobRow' = [jobRow EXCEPT !.skills_extracted = tx.skills_extracted]
    /\ lastCall' = Ended("returned", [pc |-> "return", i |-> 0])
    /\ tx' = IdleTx
    /\ UNCHANGED <<nlpCache, loadCount, frameVars>>

\* a statement of the block raises (storage fault) or the process dies: the
\* transaction is rolled back
TxFail ==
    /\ tx.pc # "idle"
    /\ lastCall' = Ended("raised", [pc |-> tx.pc, i |-> tx.i])
    /\ tx' = IdleTx
    /\ UNCHANGED <<jobRow, jobSkills, nlpCache, loadCount, frameVars>>

Next ==
    \/ JobSave
    \/ SaveJobSkillsNoDescription
    \/ SaveJobSkillsBegin
    \/ TxDelete
    \/ TxCreate
    \/ TxSaveJob
    \/ TxCommit
    \/ TxFail

(***************************************************************************)
(* SpecCand: save_candidate_skills_from_text, one request at a time.       *)
(***************************************************************************)
\* texts: none, one skill, the same skill next to a context keyword, two skills
CandTexts == {EmptyText, Python, Join(<<w_must, Python>>), Join(<<Python, w_django>>)}
CandSources == {"cover_letter", "resume"}
MinWeights == {5, 7}

\* a lookup of update_or_create that leaves the source out
KeyMatchAnySource(r, user, skill_name, source) ==
    r.user = user /\ r.skill_name = skill_name

\* the lookup of update_or_create(user=, skill_name=, source=)
KeyMatch(r, user, skill_name, source) ==
    r.user = user /\ r.skill_name = skill_name /\ r.source = source

\* CandidateSkill.objects.update_or_create(user, skill_name, source,
\* defaults={"confidence": ...}): [raised, created, table]
update_or_create(table, user, skill_name, source, confidence) ==
    LET hits == {i \in 1..Len(table) : KeyMatch(table[i], user, skill_name, source)}
    IN  IF hits = {}
        THEN [raised |-> FALSE, created |-> TRUE,
              table |-> Append(table, [user |-> user, skill_name |-> skill_name,
                                       source |-> source, confidence |-> confidence])]
        ELSE IF Cardinality(hits) > 1
        THEN [raised |-> TRUE, created |-> FALSE, table |-> table]
        ELSE [raised |-> FALSE, created |-> FALSE,
              table |-> [i \in 1..Len(table) |->
                            IF i \in hits THEN [table[i] EXCEPT !.confidence = confidence]
                            ELSE table[i]]]

\* the loop of the atomic block over skills_payload[i..]: [raised, saved, table]
RECURSIVE SaveCandidateEntries(_, _, _, _, _, _)
SaveCandidateEntries(skills_payload, i, acc, user, source, min_weight) ==
    IF acc.raised \/ i > Len(skills_payload) THEN acc
    ELSE IF skills_payload[i].weight < min_weight
    THEN SaveCandidateEntries(skills_payload, i + 1, acc, user, source, min_weight)
    ELSE LET got == update_or_create(acc.table, user, skills_payload[i].skill, source,
                                     skills_payload[i].confidence)
         IN  SaveCandidateEntries(skills_payload, i + 1,
                 [raised |-> got.raised,
                  saved |-> Append(acc.saved, [skill |-> skills_payload[i].skill,
                                               confidence |-> skills_payload[i].confidence,
                                               created |-> got.created]),
                  table |-> got.table],
                 user, source, min_weight)

InitCand ==
    /\ candSkills = <<>>
    /\ candCall = NoCandCall
    /\ nlpCache = CacheMiss /\ spacyInstalled = TRUE /\ loadCount = 0
    /\ thr = [t \in Threads |-> IdleThread]
    /\ exText = EmptyText /\ exTitle = EmptyText /\ exCall = NoCall
    /\ jobSkills = <<>> /\ applications = {} /\ matchCall = NoCall
    /\ jobRow = [title |-> EmptyText, description |-> EmptyText, skills_extracted |-> FALSE]
    /\ tx = IdleTx
    /\ lastCall = NoSave
    /\ fnCall = NoFnCall
    /\ applyCall = NoApply
    /\ saveCalls = NoSaveCalls

candFrame == <<exText, exTitle, exCall, jobSkills, applications, matchCall, thr,
               spacyInstalled, jobRow, tx, lastCall, fnCall, applyCall, saveCalls>>

\* save_candidate_skills_from_text(user, text, source, min_weight=...); the
\* atomic block is rolled back when a statement raises (fault)
SaveCandidateSkillsFromText ==
    /\ candCall.n < MaxCandCalls
    /\ \E text \in CandTexts, outcome \in LoadOutcomes :
      \E nlp \in {get_nlp(nlpCache, spacyInstalled, outcome, loadCount + 1)} :
        \E skills_payload \in {extract_candidate_skills(nlp.model, text, MAX_RETURNED_SKILLS)} :
          \E user \in Users, source \in CandSources, min_weight \in MinWeights,
             fault \in BOOLEAN :
            \E done \in {SaveCandidateEntries(skills_payload, 1,
                            [raised |-> FALSE, saved |-> <<>>, table |-> candSkills],
                            user, source, min_weight)} :
                LET CallEnded(status, saved) ==
                        [n |-> candCall.n + 1, status |-> status, user |-> user,
                         source |-> source, saved |-> saved]
                IN  /\ IF text = EmptyText
                       THEN /\ candCall' = CallEnded("returned", <<>>)
                            /\ UNCHANGED <<candSkills, nlpCache, loadCount>>
                       ELSE /\ nlpCache' = nlp
                            /\ loadCount' = IF nlpCache = CacheMiss /\ spacyInstalled
                                            THEN loadCount + 1 ELSE loadCount
                            /\ IF fault \/ done.raised
                               THEN /\ candCall' = CallEnded("raised", <<>>)
                                    /\ UNCHANGED candSkills
                               ELSE /\ candCall' = CallEnded("returned", done.saved)
                                    /\ candSkills' = done.table
                    /\ UNCHANGED candFrame

NextCand == SaveCandidateSkillsFromText

(***************************************************************************)
(* SpecStore: both tables under save_job_skills and                        *)
(* save_candidate_skills_from_text, one request at a time, each call one   *)
(* step: its atomic block commits as a whole.                              *)
(***************************************************************************)
\* the rows JobSkill.objects.create makes for a payload
JobSkillRows(j, skills_payload) ==
    [i \in 1..Len(skills_payload) |->
        [job |-> j, skill_name |-> skills_payload[i].skill,
         weight |-> skills_payload[i].weight]]

\* before the first call that stores something: the candidate requests so far
\* came with an empty text
InitStore ==
    /\ jobRow \in [title : JobTitles, description : DescTexts, skills_extracted : {FALSE}]
    /\ jobSkills = <<FrameRow>>
    /\ tx = IdleTx
    /\ lastCall = NoSave
    /\ candSkills = <<>>
    /\ candCall = [n |-> MaxCandCalls - 2, status |-> "returned", user |-> 1,
                   source |-> "cover_letter", saved |-> <<>>]
    /\ nlpCache = CacheMiss /\ spacyInstalled = TRUE /\ loadCount = 0
    /\ thr = [t \in Threads |-> IdleThread]
    /\ exText = EmptyText /\ exTitle = EmptyText /\ exCall = NoCall
    /\ applications = {} /\ matchCall = NoCall
    /\ fnCall = NoFnCall
    /\ applyCall = NoApply
    /\ saveCalls = NoSaveCalls

\* save_job_skills(job, force_dictionary, max_skills), start to return
SaveJobSkills ==
    /\ tx = IdleTx
    /\ \E force_dictionary \in BOOLEAN, max_skills \in SaveMaxSkills, outcome \in LoadOutcomes :
          IF jobRow.description = EmptyText
          THEN /\ jobRow' = [jobRow EXCEPT !.skills_extracted = FALSE]
               /\ UNCHANGED <<jobSkills, nlpCache, loadCount>>
          ELSE \E nlp \in {IF force_dictionary THEN nlpCache
                           ELSE get_nlp(nlpCache, spacyInstalled, outcome, loadCount + 1)} :
                 \E skills_payload \in {extract_skills(nlp.model, jobRow.description,
                                            jobRow.title, max_skills, force_dictionary)} :
                    /\ nlpCache' = nlp
                    /\ loadCount' = IF ~force_dictionary /\ nlpCache = CacheMiss
                                       /\ spacyInstalled
                                    THEN loadCount + 1 ELSE loadCount
                    /\ jobSkills' = RowsAfterDelete(jobSkills, StoreJob)
                                        \o JobSkillRows(StoreJob, skills_payload)
                    /\ jobRow' = [jobRow EXCEPT !.skills_extracted = (skills_payload # <<>>)]
    /\ UNCHANGED <<tx, lastCall, frameVars>>

NextStore ==
    \/ SaveJobSkills
    \/ SaveCandidateSkillsFromText

(***************************************************************************)
(* SpecWeight: _calculate_weight as a function of its arguments.           *)
(***************************************************************************)
\* sequences of up to two positions
PositionLists == UNION {[1..k -> 0..MaxPos] : k \in 0..2}
WeightTitles == {EmptyText, Join(<<w_strong, w_python>>)}
WeightSkills == {Python, Django}

\* everything but fnCall at rest
InitRest ==
    /\ exText = EmptyText /\ exTitle = EmptyText /\ exCall = NoCall
    /\ jobSkills = <<>> /\ candSkills = <<>> /\ applications = {} /\ matchCall = NoCall
    /\ InitNlpIdle
    /\ jobRow = [title |-> EmptyText, description |-> EmptyText, skills_extracted |-> FALSE]
    /\ tx = IdleTx
    /\ lastCall = NoSave
    /\ candCall = NoCandCall
    /\ applyCall = NoApply
    /\ saveCalls = NoSaveCalls

restVars == <<exText, exTitle, exCall, jobSkills, candSkills, applications, matchCall,
              nlpCache, spacyInstalled, loadCount, thr, jobRow, tx, lastCall, candCall,
              applyCall, saveCalls>>

InitWeight ==
    /\ \E skill \in WeightSkills, count \in 0..MaxCount, positions \in PositionLists,
          context_hits \in 0..MaxContextHits, total_tokens \in 0..MaxTokens,
          job_title \in WeightTitles :
          fnCall = [done |-> FALSE, skill |-> skill,
                    data |-> [skill |-> skill, count |-> count, positions |-> positions,
                              context_hits |-> context_hits],
                    total_tokens |-> total_tokens, job_title |-> job_title]
    /\ InitRest

CalculateWeight ==
    /\ ~fnCall.done
    /\ fnCall' = [done |-> TRUE, skill |-> fnCall.skill, data |-> fnCall.data,
                  total_tokens |-> fnCall.total_tokens, job_title |-> fnCall.job_title,
                  result |-> _calculate_weight(fnCall.skill, fnCall.data,
                                               fnCall.total_tokens, fnCall.job_title)]
    /\ UNCHANGED restVars

NextWeight == CalculateWeight

(***************************************************************************)
(* SpecAccumulate: the accumulator (find_canonical_skill, then             *)
(* _update_skill_stats) fed with the same triples in two orders.  A triple *)
(* is [text, start, sent], as the spans of a document.                     *)
(***************************************************************************)
PlainSentence == Join(<<Python, w_django>>)
ContextSentence == Join(<<w_must, Python>>)
TripleChoices ==
    { [text |-> Python, start |-> 0, sent |-> ContextSentence],
      [text |-> Python, start |-> 2, sent |-> PlainSentence],
      [text |-> PlainSentence, start |-> 1, sent |-> PlainSentence],
      [text |-> w_django, start |-> 1, sent |-> PlainSentence],
      [text |-> w_django, start |-> 0, sent |-> ContextSentence],
      [text |-> w_must, start |-> 0, sent |-> ContextSentence] }

\* the orders in which n triples can be fed
Orders(n) == {o \in [1..n -> 1..n] : \A i, j \in 1..n : o[i] = o[j] => i = j}

InitAccumulate ==
    /\ \E n \in 0..MaxTriples :
          \E triples \in [1..n -> TripleChoices], order \in Orders(n) :
              fnCall = [done |-> FALSE, triples |-> triples, order |-> order]
    /\ InitRest

\* the triples fed as given, and fed in the other order
Accumulate ==
    /\ ~fnCall.done
    /\ fnCall' = [done |-> TRUE, triples |-> fnCall.triples, order |-> fnCall.order,
                  first |-> AccumulateSpans(fnCall.triples, <<>>),
                  second |-> AccumulateSpans(
                                 [i \in 1..Len(fnCall.triples) |->
                                     fnCall.triples[fnCall.order[i]]], <<>>)]
    /\ UNCHANGED restVars

NextAccumulate == Accumulate

(***************************************************************************)
(* SpecApply: the view apply_job, one request at a time, statement by      *)
(* statement.  Each ORM statement outside an atomic block commits at once  *)
(* (autocommit).                                                           *)
(***************************************************************************)
ApplyJobs == {1, 2}
Roles == {"user", "company"}
Methods == {"GET", "POST"}
CoverLetters == {Python, Join(<<Python, w_django>>)}
\* request.FILES['resume'] and the text extract_text_from_resume reads from it
ResumeFiles == {[present |-> FALSE, text |-> EmptyText],
                [present |-> TRUE, text |-> EmptyText],
                [present |-> TRUE, text |-> Join(<<w_must, Python>>)]}

InitApply ==
    /\ applyCall = NoApply
    /\ applications = {}
    /\ candSkills = <<>>
    /\ nlpCache = CacheMiss /\ spacyInstalled = TRUE /\ loadCount = 0
    /\ thr = [t \in Threads |-> IdleThread]
    /\ exText = EmptyText /\ exTitle = EmptyText /\ exCall = NoCall
    /\ jobSkills = <<>> /\ matchCall = NoCall
    /\ jobRow = [title |-> EmptyText, description |-> EmptyText, skills_extracted |-> FALSE]
    /\ tx = IdleTx
    /\ lastCall = NoSave
    /\ candCall = NoCandCall
    /\ fnCall = NoFnCall
    /\ saveCalls = NoSaveCalls

applyFrame == <<exText, exTitle, exCall, jobSkills, matchCall, thr, spacyInstalled,
                jobRow, tx, lastCall, candCall, fnCall, saveCalls>>

\* the Application row of the request
ApplicationRow(call) == [job |-> call.job, applicant |-> call.user]

\* apply_job up to form.is_valid() (views.py lines 125-138)
ApplyJobBegin ==
    /\ applyCall.pc \in {"idle", "done"}
    /\ applyCall.n < MaxApplyCalls
    /\ \E user \in Users, job \in ApplyJobs, role \in Roles, method \in Methods,
          valid \in BOOLEAN, cover_letter \in CoverLetters, resume \in ResumeFiles :
          LET already == [job |-> job, applicant |-> user] \in applications
              stop == IF role # "user" THEN "only_users"
                      ELSE IF already THEN "already_applied"
                      ELSE IF method # "POST" \/ ~valid THEN "form"
                      ELSE "none"
          IN  applyCall' = [pc |-> IF stop = "none" THEN "save" ELSE "done",
                            n |-> applyCall.n + 1, user |-> user, job |-> job,
                            cover_letter |-> cover_letter, resume |-> resume,
                            trace |-> <<>>, response |-> stop]
    /\ UNCHANGED <<applications, candSkills, nlpCache, loadCount, applyFrame>>

\* application.save() (lines 140-143): the row is stored, or save raises a
\* ValidationError (caught at line 172) or another exception
ApplicationSave ==
    /\ applyCall.pc = "save"
    /\ \E outcome \in {"saved", "ValidationError", "Exception"} :
          IF outcome = "saved"
          THEN /\ applications' = applications \cup {ApplicationRow(applyCall)}
               /\ applyCall' = [applyCall EXCEPT !.pc = "cover_letter",
                                                 !.trace = Append(@, "saved")]
          ELSE /\ UNCHANGED applications
               /\ applyCall' = [applyCall EXCEPT !.pc = "done",
                                   !.response = IF outcome = "ValidationError"
                                                THEN "form_error" ELSE "server_error"]
    /\ UNCHANGED <<candSkills, nlpCache, loadCount, applyFrame>>

\* the store after the handler of `except Exception as extraction_error`
\* (lines 164-169), and where the view goes on
ExtractionErrorUndoes(apps, row) == [apps |-> apps \ {row}, pc |-> "failed"]

AfterExtractionError(apps, row) == [apps |-> apps, pc |-> "success"]

\* save_candidate_skills_from_text(user, text, source) as the view calls it:
\* [raised, table, nlp, loads]
CandidateSkillsSaved(text, source, outcome, fault) ==
    IF text = EmptyText
    THEN [raised |-> FALSE, table |-> candSkills, nlp |-> nlpCache, loads |-> loadCount]
    ELSE LET nlp == get_nlp(nlpCache, spacyInstalled, outcome, loadCount + 1)
             skills_payload == extract_candidate_skills(nlp.model, text, MAX_RETURNED_SKILLS)
             done == SaveCandidateEntries(skills_payload, 1,
                         [raised |-> FALSE, saved |-> <<>>, table |-> candSkills],
                         applyCall.user, source, 5)
         IN  [raised |-> fault \/ done.raised,
              table |-> IF fault \/ done.raised THEN candSkills ELSE done.table,
              nlp |-> nlp,
              loads |-> IF nlpCache = CacheMiss /\ spacyInstalled
                        THEN loadCount + 1 ELSE loadCount]

\* lines 148-152: extraction from the cover letter
ExtractCoverLetter ==
    /\ applyCall.pc = "cover_letter"
    /\ \E outcome \in LoadOutcomes, fault \in BOOLEAN :
        \E got \in {CandidateSkillsSaved(applyCall.cover_letter, "cover_letter",
                                         outcome, fault)} :
          /\ candSkills' = got.table
          /\ nlpCache' = got.nlp
          /\ loadCount' = got.loads
          /\ IF got.raised
             THEN \E after \in {AfterExtractionError(applications,
                                                     ApplicationRow(applyCall))} :
                    /\ applications' = after.apps
                    /\ applyCall' = [applyCall EXCEPT !.pc = after.pc,
                                        !.trace = Append(@, "cover_letter_raised")]
             ELSE /\ UNCHANGED applications
                  /\ applyCall' = [applyCall EXCEPT !.pc = "resume",
                                      !.trace = Append(@, "cover_letter")]
    /\ UNCHANGED applyFrame

\* lines 155-162: extraction from the resume, when there is one with text
ExtractResume ==
    /\ applyCall.pc = "resume"
    /\ \E outcome \in LoadOutcomes, fault \in BOOLEAN, read_fault \in BOOLEAN :
        \E got \in {IF ~applyCall.resume.present
                    THEN CandidateSkillsSaved(EmptyText, "resume", outcome, FALSE)
                    ELSE CandidateSkillsSaved(applyCall.resume.text, "resume",
                                              outcome, fault)} :
          LET raised == applyCall.resume.present /\ (read_fault \/ got.raised)
              stored == ~raised /\ applyCall.resume.present
          IN  /\ candSkills' = IF stored THEN got.table ELSE candSkills
              /\ nlpCache' = IF read_fault THEN nlpCache ELSE got.nlp
              /\ loadCount' = IF read_fault THEN loadCount ELSE got.loads
              /\ IF raised
                 THEN \E after \in {AfterExtractionError(applications,
                                                         ApplicationRow(applyCall))} :
                        /\ applications' = after.apps
                        /\ applyCall' = [applyCall EXCEPT !.pc = after.pc,
                                            !.trace = Append(@, "resume_raised")]
                 ELSE /\ UNCHANGED applications
                      /\ applyCall' = [applyCall EXCEPT !.pc = "success",
                                          !.trace = Append(@, "resume")]
    /\ UNCHANGED applyFrame

\* lines 170-171: messages.success(...) and the redirect
ApplySuccess ==
    /\ applyCall.pc = "success"
    /\ applyCall' = [applyCall EXCEPT !.pc = "done", !.response = "success"]
    /\ UNCHANGED <<applications, candSkills, nlpCache, loadCount, applyFrame>>

NextApply ==
    \/ ApplyJobBegin
    \/ ApplicationSave
    \/ ExtractCoverLetter
    \/ ExtractResume
    \/ ApplySuccess

(***************************************************************************)
(* SpecRace: two requests (views.py extract_job_skills) run save_job_skills*)
(* for job 1 on two database connections, statement by statement, while    *)
(* the posting form may save a new description.  The code takes no lock of *)
(* its own (no select_for_update), so what the two atomic blocks see of    *)
(* each other is the database's: either READ COMMITTED with row locks, or  *)
(* one writer at a time for the whole database.  A row carries `by`, the   *)
(* connection that created it (0: before both).                            *)
(***************************************************************************)
Connections == {1, 2}
Backends == {"read_committed", "one_writer"}
\* descriptions: one skill, another skill, both, none
RaceDescs == {Python, w_django, Join(<<Python, w_django>>), w_must}
IdleSave == [pc |-> "idle", status |-> "none", payload |-> <<>>, i |-> 1,
             snap |-> {}, deleted |-> {}, inserted |-> <<>>, flagged |-> FALSE]
\* the places of a call at which its transaction holds locks
WritePcs == {"create", "commit"}
OtherConnection(c) == 3 - c

\* the committed rows of job j, as a set
CommittedRows(table, j) == {table[k] : k \in {n \in 1..Len(table) : table[n].job = j}}

\* the rows an earlier, completed save_job_skills call left
EarlierRows(description, title) ==
    LET skills_payload == extract_skills(NoneValue.model, description, title,
                                         MAX_RETURNED_SKILLS, TRUE)
    IN  [k \in 1..Len(skills_payload) |->
            [job |-> StoreJob, skill_name |-> skills_payload[k].skill,
             weight |-> skills_payload[k].weight, by |-> 0]]

InitRace ==
    /\ \E title \in JobTitles, description \in RaceDescs, extracted \in BOOLEAN :
          /\ jobSkills = IF extracted THEN EarlierRows(description, title) ELSE <<>>
          /\ jobRow = [title |-> title, description |-> description,
                       skills_extracted |-> extracted /\ EarlierRows(description, title) # <<>>]
    /\ \E backend \in Backends :
          saveCalls = [backend |-> backend, call |-> [c \in Connections |-> IdleSave]]
    /\ nlpCache = NoneValue /\ spacyInstalled = FALSE /\ loadCount = 0
    /\ thr = [t \in Threads |-> IdleThread]
    /\ exText = EmptyText /\ exTitle = EmptyText /\ exCall = NoCall
    /\ candSkills = <<>> /\ applications = {} /\ matchCall = NoCall
    /\ tx = IdleTx
    /\ lastCall = NoSave
    /\ candCall = NoCandCall
    /\ fnCall = NoFnCall
    /\ applyCall = NoApply

raceFrame == <<exText, exTitle, exCall, candSkills, applications, matchCall, nlpVars,
               tx, lastCall, candCall, fnCall, applyCall>>

SetCall(c, rec) == [saveCalls EXCEPT !.call[c] = rec]

\* Job.save() of the posting form: another description, committed at once
RaceEditDescription ==
    \E description \in RaceDescs :
        /\ description # jobRow.description
        /\ jobRow' = [jobRow EXCEPT !.description = description]
        /\ UNCHANGED <<jobSkills, saveCalls, raceFrame>>

\* get_object_or_404 and save_job_skills up to the atomic block (lines
\* 385-397): the request works on its own copy of the job
RaceBegin(c) ==
    /\ saveCalls.call[c].pc = "idle"
    /\ \E force_dictionary \in BOOLEAN, max_skills \in SaveMaxSkills :
          saveCalls' = SetCall(c, [IdleSave EXCEPT
                           !.pc = "delete",
                           !.payload = extract_skills(get_nlp(nlpCache, spacyInstalled,
                                                              "None", 0).model,
                                           jobRow.description, jobRow.title,
                                           max_skills, force_dictionary)])
    /\ UNCHANGED <<jobRow, jobSkills, raceFrame>>

\* job.job_skills.all().delete(): the statement sees the committed rows; rows
\* another open transaction has deleted are locked, and the statement waits
RaceDelete(c) ==
    LET me == saveCalls.call[c]
        other == saveCalls.call[OtherConnection(c)]
        seen == CommittedRows(jobSkills, StoreJob)
    IN  /\ me.pc = "delete"
        /\ saveCalls.backend = "one_writer" => other.pc \notin WritePcs
        /\ saveCalls' = SetCall(c,
              IF other.pc \in WritePcs /\ seen \cap other.deleted # {}
              THEN [me EXCEPT !.pc = "delete_wait", !.snap = seen]
              ELSE [me EXCEPT !.pc = "create", !.deleted = seen])
        /\ UNCHANGED <<jobRow, jobSkills, raceFrame>>

\* the waiting delete goes on when the other transaction has ended: of the
\* rows it saw, it deletes those that still exist
RaceDeleteResume(c) ==
    LET me == saveCalls.call[c]
        other == saveCalls.call[OtherConnection(c)]
    IN  /\ me.pc = "delete_wait"
        /\ other.pc \notin WritePcs
        /\ saveCalls' = SetCall(c, [me EXCEPT !.pc = "create",
                                       !.deleted = me.snap \cap CommittedRows(jobSkills, StoreJob)])
        /\ UNCHANGED <<jobRow, jobSkills, raceFrame>>

\* the transaction of the call is rolled back and the call raises
RolledBack(me, status) ==
    [me EXCEPT !.pc = "done", !.status = status, !.deleted = {}, !.inserted = <<>>,
               !.flagged = FALSE]

\* JobSkill.objects.create(...) for the next entry: the unique index on
\* (job, skill_name) waits for an open transaction that deleted or inserted
\* a row with that key, and raises IntegrityError for a row that exists
RaceCreate(c) ==
    LET me == saveCalls.call[c]
        other == saveCalls.call[OtherConnection(c)]
    IN  /\ me.pc = "create"
        /\ me.i <= Len(me.payload)
        /\ LET row == [job |-> StoreJob, skill_name |-> me.payload[me.i].skill,
                       weight |-> me.payload[me.i].weight, by |-> c]
               same == {r \in CommittedRows(jobSkills, StoreJob) \ me.deleted :
                           r.skill_name = row.skill_name}
               pending == other.pc \in WritePcs /\
                          \/ same \cap other.deleted # {}
                          \/ \E k \in 1..Len(other.inserted) :
                                other.inserted[k].skill_name = row.skill_name
           IN  /\ ~pending
               /\ saveCalls' = SetCall(c,
                     IF same # {} THEN RolledBack(me, "integrity")
                     ELSE [me EXCEPT !.i = @ + 1, !.inserted = Append(@, row)])
        /\ UNCHANGED <<jobRow, jobSkills, raceFrame>>

\* job.skills_extracted = bool(skills_payload); job.save(update_fields=[...]):
\* an UPDATE of the job row, which waits for an open transaction that wrote it
RaceSaveJob(c) ==
    LET me == saveCalls.call[c]
        other == saveCalls.call[OtherConnection(c)]
    IN  /\ me.pc = "create"
        /\ me.i > Len(me.payload)
        /\ ~(other.pc \in WritePcs /\ other.flagged)
        /\ saveCalls' = SetCall(c, [me EXCEPT !.pc = "commit", !.flagged = TRUE])
        /\ UNCHANGED <<jobRow, jobSkills, raceFrame>>

\* the atomic block is left: the deletes and inserts of the call are committed
RaceCommit(c) ==
    LET me == saveCalls.call[c]
        Kept(r) == r \notin me.deleted
    IN  /\ me.pc = "commit"
        /\ jobSkills' = SelectSeq(jobSkills, Kept) \o me.inserted
        /\ jobRow' = [jobRow EXCEPT !.skills_extracted = (me.payload # <<>>)]
        /\ saveCalls' = SetCall(c, [me EXCEPT !.pc = "done", !.status = "returned"])
        /\ UNCHANGED raceFrame

\* a statement raises (lock timeout, deadlock victim, storage fault)
RaceAbort(c) ==
    LET me == saveCalls.call[c]
    IN  /\ me.pc \in {"delete", "delete_wait", "create", "commit"}
        /\ saveCalls' = SetCall(c, RolledBack(me, "raised"))
        /\ UNCHANGED <<jobRow, jobSkills, raceFrame>>

NextRace ==
    \/ RaceEditDescription
    \/ \E c \in Connections :
          \/ RaceBegin(c)
          \/ RaceDelete(c)
          \/ RaceDeleteResume(c)
          \/ RaceCreate(c)
          \/ RaceSaveJob(c)
          \/ RaceCommit(c)
          \/ RaceAbort(c)

vars == <<exText, exTitle, exCall, jobSkills, candSkills, applications, matchCall,
          nlpCache, spacyInstalled, loadCount, thr, jobRow, tx, lastCall, candCall,
          fnCall, applyCall, saveCalls>>

NextExtract == ExtractSkills

SpecExtract == InitExtract /\ [][NextExtract]_vars

SpecMatch == InitMatch /\ [][NextMatch]_vars

SpecNlp == InitNlp /\ [][NextNlp]_vars

Spec == InitJob /\ [][Next]_vars

SpecCand == InitCand /\ [][NextCand]_vars

SpecStore == InitStore /\ [][NextStore]_vars

SpecWeight == InitWeight /\ [][NextWeight]_vars

SpecAccumulate == InitAccumulate /\ [][NextAccumulate]_vars

SpecApply == InitApply /\ [][NextApply]_vars

SpecRace == InitRace /\ [][NextRace]_vars

(***************************************************************************)
(* Properties of build_candidate_match_payload (SpecMatch).                *)
(***************************************************************************)
ResultEntries == {matchCall.result[i] : i \in 1..Len(matchCall.result)}
RowsOfUser(u) == {candSkills[i] : i \in {k \in 1..Len(candSkills) : candSkills[k].user = u}}
RowsOfJob(j) == {jobSkills[i] : i \in {k \in 1..Len(jobSkills) : jobSkills[k].job = j}}
AppliedToCompany(u, j) ==
    \E a \in applications : a.applicant = u /\ JobCompany(a.job) = JobCompany(j)

\* the job rows of j whose name equals a skill name of u, ignoring case
MatchedRows(j, u) ==
    {r \in RowsOfJob(j) : \E c \in RowsOfUser(u) : Lower(c.skill_name) = Lower(r.skill_name)}

RECURSIVE SumOfRows(_)
SumOfRows(S) ==
    IF S = {} THEN 0
    ELSE LET r == CHOOSE x \in S : TRUE IN r.weight + SumOfRows(S \ {r})

\* C7: no returned candidate has matched_weight below min_match_weight, and
\* every returned candidate has at least one stored skill.
C7_ThresholdAndSkills ==
    matchCall.done =>
        \A r \in ResultEntries :
            /\ r.matched_weight >= matchCall.min_match_weight
            /\ r.matched_weight = SumOfRows(MatchedRows(matchCall.job, r.candidate))
            /\ RowsOfUser(r.candidate) # {}

\* a call that returned one candidate and left out another one of the pool
\* who holds a matching skill, for a threshold above that one's matched weight
C7_Witness ==
    /\ matchCall.done
    /\ matchCall.result # <<>>
    /\ \E u \in Users :
          /\ AppliedToCompany(u, matchCall.job)
          /\ MatchedRows(matchCall.job, u) # {}
          /\ SumOfRows(MatchedRows(matchCall.job, u)) > 0
          /\ \A r \in ResultEntries : r.candidate # u

\* C8: every returned fit_score lies in [0.0, 100.0] and
\* 0 <= matched_weight <= total_weight, also for a candidate holding one skill
\* under several sources and for a job whose weights sum to 0.
C8_FitScoreRange ==
    matchCall.done =>
        \A r \in ResultEntries :
            /\ 0 <= r.fit_score /\ r.fit_score <= 1000
            /\ 0 <= r.matched_weight /\ r.matched_weight <= r.total_weight

\* a returned candidate who holds a matched skill under two sources, and the
\* job's weights sum to more than one row's weight
C8_Witness ==
    /\ matchCall.done
    /\ \E r \in ResultEntries :
          /\ \E c1, c2 \in RowsOfUser(r.candidate) :
                /\ c1.source # c2.source
                /\ Lower(c1.skill_name) = Lower(c2.skill_name)
                /\ \E jr \in RowsOfJob(matchCall.job) :
                      Lower(jr.skill_name) = Lower(c1.skill_name) /\ jr.weight > 0
          /\ r.matched_weight < r.total_weight

\* a returned candidate of a job whose weights sum to 0
C8_ZeroSumReached ==
    /\ matchCall.done
    /\ matchCall.result # <<>>
    /\ SumOfRows(RowsOfJob(matchCall.job)) = 0

\* f tenths is x = 100 * m / t rounded to one decimal: no tenth is nearer to x
IsRoundedTenth(f, m, t) ==
    LET d == 10 * f * t - 10000 * m      \* (f/10 - x) * 100 t
    IN  -5 * t <= d /\ d <= 5 * t

ScenarioStore ==
    /\ jobSkills = <<[job |-> 1, skill_name |-> Python, weight |-> 8],
                     [job |-> 1, skill_name |-> Django, weight |-> 6],
                     [job |-> 1, skill_name |-> AWS, weight |-> 2]>>
    /\ {[skill_name |-> c.skill_name] : c \in RowsOfUser(1)} =
           {[skill_name |-> Python], [skill_name |-> Django]}
    /\ {[skill_name |-> c.skill_name] : c \in RowsOfUser(2)} = {[skill_name |-> AWS]}
    /\ AppliedToCompany(1, 1) /\ AppliedToCompany(2, 1)

ScenarioResult ==
    /\ Len(matchCall.result) = 2
    /\ matchCall.result[1].candidate = 1 /\ matchCall.result[1].fit_score = 875
    /\ matchCall.result[1].matched_weight = 14
    /\ matchCall.result[2].candidate = 2 /\ matchCall.result[2].fit_score = 125
    /\ matchCall.result[2].matched_weight = 2

\* C9 as stated: fit_score is matched_weight / total_weight * 100 rounded to
\* one decimal, total_weight being the sum of the job's skill weights and
\* matched_weight the sum of the weights of the job skills the candidate
\* holds (ignoring case); in the scenario A scores 87.5, B 12.5, order [A, B].
C9_AsStated ==
    matchCall.done =>
        /\ \A r \in ResultEntries :
              /\ r.total_weight = SumOfRows(RowsOfJob(matchCall.job))
              /\ r.matched_weight = SumOfRows(MatchedRows(matchCall.job, r.candidate))
              /\ IsRoundedTenth(r.fit_score, r.matched_weight, r.total_weight)
        /\ (ScenarioStore /\ matchCall.min_match_weight = 1 => ScenarioResult)

\* C9 amended: the same, total_weight being the sum of the job's skill
\* weights, or 1 when that sum is 0.
C9_FitScoreFormula ==
    matchCall.done =>
        /\ \A r \in ResultEntries :
              /\ r.total_weight = (IF SumOfRows(RowsOfJob(matchCall.job)) = 0 THEN 1
                                   ELSE SumOfRows(RowsOfJob(matchCall.job)))
              /\ r.matched_weight = SumOfRows(MatchedRows(matchCall.job, r.candidate))
              /\ IsRoundedTenth(r.fit_score, r.matched_weight, r.total_weight)
        /\ (ScenarioStore /\ matchCall.min_match_weight = 1 => ScenarioResult)

\* the scenario's call, done
C9_Witness == matchCall.done /\ ScenarioStore /\ matchCall.min_match_weight = 1

\* C15: for a job without JobSkill rows the call returns the empty sequence,
\* whatever the pool, the skills of the candidates and min_match_weight.
C15_NoJobSkillsNoMatches ==
    (matchCall.done /\ RowsOfJob(matchCall.job) = {}) => matchCall.result = <<>>

\* the job has no rows, min_match_weight is 0 and two applicants of the
\* company hold skills
C15_Witness ==
    /\ matchCall.done
    /\ RowsOfJob(matchCall.job) = {}
    /\ matchCall.min_match_weight = 0
    /\ Len(matchCall.pool) = 2
    /\ \A u \in Users : RowsOfUser(u) # {}

\* the place of user u in the enumeration of the pool (0: not in it)
PoolIndex(u) ==
    IF \E i \in 1..Len(matchCall.pool) : matchCall.pool[i] = u
    THEN CHOOSE i \in 1..Len(matchCall.pool) : matchCall.pool[i] = u
    ELSE 0

\* C19: the result is ordered by non-increasing fit_score, and candidates
\* with equal fit_score appear in the order in which the pool was enumerated.
C19_SortedStable ==
    matchCall.done =>
        \A i, j \in 1..Len(matchCall.result) :
            i < j =>
                /\ matchCall.result[i].fit_score >= matchCall.result[j].fit_score
                /\ matchCall.result[i].fit_score = matchCall.result[j].fit_score =>
                       PoolIndex(matchCall.result[i].candidate) <
                       PoolIndex(matchCall.result[j].candidate)

\* two candidates with the same positive fit_score, enumerated as 2, 1
C19_Witness ==
    /\ matchCall.done
    /\ matchCall.pool = <<2, 1>>
    /\ Len(matchCall.result) = 2
    /\ matchCall.result[1].fit_score = matchCall.result[2].fit_score
    /\ matchCall.result[1].fit_score > 0
    /\ matchCall.result[1].candidate = 2

\* two candidates with different fit_score, the later of the pool first
C19_WitnessReordered ==
    /\ matchCall.done
    /\ Len(matchCall.result) = 2
    /\ matchCall.result[1].fit_score > matchCall.result[2].fit_score
    /\ PoolIndex(matchCall.result[1].candidate) > PoolIndex(matchCall.result[2].candidate)

\* C20: every candidate of the result applied to at least one job of the
\* company of the job, and no candidate is in the result twice.
C20_ApplicantsOnlyOnce ==
    matchCall.done =>
        /\ \A r \in ResultEntries : AppliedToCompany(r.candidate, matchCall.job)
        /\ \A i, j \in 1..Len(matchCall.result) :
              matchCall.result[i].candidate = matchCall.result[j].candidate => i = j

\* one candidate applied to two jobs of the company and is returned once;
\* the other user applied only to a job of another company, holds a matching
\* skill that passes the threshold, and is not returned
C20_Witness ==
    /\ matchCall.done
    /\ Len(matchCall.result) = 1
    /\ \E u \in Users :
          /\ matchCall.result[1].candidate = u
          /\ Cardinality({a \in applications :
                  a.applicant = u /\ JobCompany(a.job) = JobCompany(matchCall.job)}) = 2
    /\ \E v \in Users :
          /\ v # matchCall.result[1].candidate
          /\ \E a \in applications : a.applicant = v
          /\ ~AppliedToCompany(v, matchCall.job)
          /\ SumOfRows(MatchedRows(matchCall.job, v)) >= matchCall.min_match_weight
          /\ MatchedRows(matchCall.job, v) # {}

\* as before, the other user having never applied to any job
C20_WitnessNeverApplied ==
    /\ matchCall.done
    /\ Len(matchCall.result) = 1
    /\ \E v \in Users :
          /\ v # matchCall.result[1].candidate
          /\ ~\E a \in applications : a.applicant = v
          /\ MatchedRows(matchCall.job, v) # {}
          /\ SumOfRows(MatchedRows(matchCall.job, v)) >= matchCall.min_match_weight

(***************************************************************************)
(* Properties of extract_skills (SpecExtract).                             *)
(***************************************************************************)
\* C10: extract_skills returns at most max_skills entries, for every text,
\* title, max_skills >= 0 and strategy.
C10_AtMostMaxSkills ==
    exCall.done => Len(exCall.result) <= exCall.max_skills

\* a call of the linguistic strategy whose result the slice cut short
C10_Witness ==
    /\ exCall.done
    /\ ~exCall.force_dictionary /\ exCall.nlp \in Analyzers
    /\ exCall.max_skills >= 1
    /\ Len(exCall.result) = exCall.max_skills
    /\ Len(extract_skills(exCall.nlp, exText, exTitle, MAX_RETURNED_SKILLS, FALSE))
           > exCall.max_skills

\* a call of the dictionary strategy whose result the slice cut short
C10_WitnessDictionary ==
    /\ exCall.done
    /\ exCall.force_dictionary
    /\ Len(exCall.result) = exCall.max_skills
    /\ Len(extract_skills_dictionary(exText, exTitle, MAX_RETURNED_SKILLS))
           > exCall.max_skills

\* what the call of exCall returns when nothing is cut off
ExUntruncated ==
    extract_skills(exCall.nlp, exText, exTitle, MAX_RETURNED_SKILLS, exCall.force_dictionary)

\* C11: the returned sequence is ordered by non-increasing weight, and every
\* skill the slice to max_skills dropped weighs no more than any returned one.
C11_OrderedTopWeights ==
    exCall.done =>
        /\ \A i, j \in 1..Len(exCall.result) :
              i < j => exCall.result[i].weight >= exCall.result[j].weight
        /\ \A d \in 1..Len(ExUntruncated) :
              (\A r \in 1..Len(exCall.result) :
                   exCall.result[r].skill # ExUntruncated[d].skill) =>
                  \A r \in 1..Len(exCall.result) :
                      ExUntruncated[d].weight <= exCall.result[r].weight

\* two returned skills of different weight, a third one dropped, and the
\* heaviest skill is not the first one the extractor met
C11_Witness ==
    /\ exCall.done
    /\ Len(exCall.result) = 2
    /\ exCall.result[1].weight > exCall.result[2].weight
    /\ Len(ExUntruncated) = 3
    /\ exCall.result[1].skill # Python

\* no entity, noun chunk or noun token of the document resolves to a skill
NoSignalResolves(doc) ==
    /\ \A i \in 1..Len(doc.ents) : find_canonical_skill(doc.ents[i].text) = "None"
    /\ \A i \in 1..Len(doc.noun_chunks) :
          find_canonical_skill(doc.noun_chunks[i].text) = "None"
    /\ \A i \in 1..Len(doc.tokens) :
          doc.tokens[i].pos_ \in {"NOUN", "PROPN"} =>
              find_canonical_skill(doc.tokens[i].lemma_) = "None"

\* C16: without a model, or with a model none of whose signals resolves to a
\* dictionary skill, the linguistic extractor returns what the dictionary
\* extractor returns for the same text, title and max_skills.
C16_FallbackEqualsDictionary ==
    (/\ exCall.done
     /\ ~exCall.force_dictionary
     /\ \/ exCall.nlp = "None"
        \/ NoSignalResolves(Doc(exCall.nlp, exText))) =>
        exCall.result = extract_skills_dictionary(exText, exTitle, exCall.max_skills)

\* a model is there and finds nothing in a text the dictionary finds two
\* skills in
C16_Witness ==
    /\ exCall.done
    /\ ~exCall.force_dictionary
    /\ exCall.nlp \in Analyzers
    /\ NoSignalResolves(Doc(exCall.nlp, exText))
    /\ Len(exCall.result) = 2

\* without a model, for a text with a skill
C16_WitnessNoModel ==
    /\ exCall.done
    /\ ~exCall.force_dictionary
    /\ exCall.nlp = "None"
    /\ exCall.result # <<>>

(***************************************************************************)
(* Properties of get_nlp under concurrent first use (SpecNlp).             *)
(***************************************************************************)
\* C3: spacy.load is executed at most once in the process, and every caller
\* of get_nlp that receives a model receives the same one.
C3_SingleLoad ==
    /\ loadCount <= 1
    /\ \A t1, t2 \in Threads :
          (thr[t1].path = "nlp" /\ thr[t2].path = "nlp") => thr[t1].result = thr[t2].result

\* C14: a call with force_dictionary returns from the dictionary extractor in
\* the step that enters it: get_nlp is not called, the cache and the number of
\* loads stay as they are, whether or not spaCy is installed.
C14_ForcedDictionaryFrame ==
    [][ \A t \in Threads :
          (thr'[t].calls # thr[t].calls /\ thr'[t].path = "dictionary") =>
              /\ thr'[t].pc = "returned"
              /\ thr'[t].result = NoResult
              /\ nlpCache' = nlpCache
              /\ loadCount' = loadCount ]_vars

\* a forced call has returned in a process without spaCy and a cold cache,
\* while the other thread is inside get_nlp
C14_Witness ==
    /\ ~spacyInstalled
    /\ nlpCache = CacheMiss
    /\ \E t, u \in Threads :
          /\ thr[t].pc = "returned" /\ thr[t].path = "dictionary"
          /\ thr[t].result = NoResult
          /\ thr[u].pc = "miss"

\* a load attempt has failed: get_nlp's body handed None to a caller, or None
\* is what the cache holds
LoadFailed == nlpCache = NoneValue \/ \E t \in Threads : thr[t].result = NoneValue

\* C13: once a load attempt has failed, no step of the process attempts
\* another spacy.load, and no extraction call goes on to use a model.
C13_NoLoadAfterFailure ==
    [][ LoadFailed =>
          /\ loadCount' = loadCount
          /\ \A t \in Threads : thr'[t].path = "nlp" => thr[t].path = "nlp" ]_vars

(***************************************************************************)
(* Properties of save_job_skills (Spec).                                   *)
(***************************************************************************)
StoredSkillRows(table, j) ==
    LET OfJob(r) == r.job = j IN SelectSeq(table, OfJob)

StoredSkillSet(table, j) ==
    {[skill |-> StoredSkillRows(table, j)[i].skill_name,
      weight |-> StoredSkillRows(table, j)[i].weight] :
        i \in 1..Len(StoredSkillRows(table, j))}

PayloadSkillSet(payload) ==
    {[skill |-> payload[i].skill, weight |-> payload[i].weight] : i \in 1..Len(payload)}

StoredExactly(table, j, payload) ==
    /\ StoredSkillSet(table, j) = PayloadSkillSet(payload)
    /\ Len(StoredSkillRows(table, j)) = Len(payload)

\* C1: once a save_job_skills call has returned, the JobSkill rows of the job
\* are exactly the entries of the list the call returned, one row per entry
\* with its name and weight, and no row from before the call besides those.
C1_ExactReplacement ==
    lastCall.status = "returned" => StoredExactly(jobSkills, StoreJob, lastCall.payload)

\* C2: once save_job_skills has returned for a job with the empty string as
\* description, it has returned the empty list and the job has no JobSkill row.
C2_EmptyDescriptionClears ==
    (lastCall.status = "returned" /\ lastCall.empty) =>
        /\ lastCall.payload = <<>>
        /\ StoredSkillRows(jobSkills, StoreJob) = <<>>

\* C4: while the atomic block of save_job_skills runs, and after it was left
\* by an exception or a crash at any statement, the committed JobSkill table
\* is the one from before the call (the complete old set); after the call
\* returned from the block it holds exactly the new set.
C4_AllOrNothing ==
    /\ tx.pc # "idle" => jobSkills = tx.old
    /\ lastCall.status \in {"raised", "integrity"} => jobSkills = lastCall.old
    /\ (lastCall.status = "returned" /\ ~lastCall.empty) =>
          StoredExactly(jobSkills, StoreJob, lastCall.payload)

\* a call died after it deleted the old rows and created the first of two new
\* ones, the old set being another one than the new
C4_Witness ==
    /\ lastCall.status = "raised"
    /\ lastCall.stage = [pc |-> "create", i |-> 2]
    /\ Len(lastCall.payload) = 2
    /\ StoredSkillRows(lastCall.old, StoreJob) # <<>>
    /\ StoredSkillSet(lastCall.old, StoreJob) # PayloadSkillSet(lastCall.payload)

\* C6: a save_job_skills call that repeats the one before it (same arguments,
\* title and description not saved in between) does not end in an
\* IntegrityError, and when it has returned the job has the same names with
\* the same weights as before it, one row per name.
C6_RepeatLeavesSameSet ==
    (lastCall.status # "none" /\ lastCall.repeat) =>
        /\ lastCall.status # "integrity"
        /\ lastCall.status = "returned" =>
              /\ StoredSkillSet(jobSkills, StoreJob) = StoredSkillSet(lastCall.old, StoreJob)
              /\ \A a, b \in 1..Len(StoredSkillRows(jobSkills, StoreJob)) :
                    StoredSkillRows(jobSkills, StoreJob)[a].skill_name =
                    StoredSkillRows(jobSkills, StoreJob)[b].skill_name => a = b

\* the repeated call went through the atomic block and stored two skills
C6_Witness ==
    /\ lastCall.status = "returned"
    /\ lastCall.repeat
    /\ ~lastCall.empty
    /\ Len(lastCall.payload) = 2

\* C22: after any sequence of save_job_skills calls and saves of the
\* description, skills_extracted of the job is true exactly when the job has
\* at least one stored JobSkill row.
C22_FlagIffRows ==
    jobRow.skills_extracted <=> (StoredSkillRows(jobSkills, StoreJob) # <<>>)

(***************************************************************************)
(* Properties of save_candidate_skills_from_text (SpecCand).               *)
(***************************************************************************)
CandKeyUnique(table) ==
    \A i, j \in 1..Len(table) :
        (/\ table[i].user = table[j].user
         /\ table[i].skill_name = table[j].skill_name
         /\ table[i].source = table[j].source) => i = j

RowsWithKey(table, user, skill_name, source) ==
    {i \in 1..Len(table) : /\ table[i].user = user
                           /\ table[i].skill_name = skill_name
                           /\ table[i].source = source}

SavedSkills(call) == {call.saved[i].skill : i \in 1..Len(call.saved)}

\* C5: the CandidateSkill table never has two rows with one (user, skill,
\* source); a call that returns leaves, for every skill it saved, the one row
\* of (user, skill, source) holding the new confidence, adds a row only for a
\* key that had none, and leaves every other row, the rows of the same skill
\* from other sources among them, as it was.
C5_UpsertPerSource ==
    [][ (candCall'.n # candCall.n /\ candCall'.status = "returned") =>
          /\ CandKeyUnique(candSkills')
          /\ \A e \in 1..Len(candCall'.saved) :
                LET k == RowsWithKey(candSkills', candCall'.user, candCall'.saved[e].skill,
                                     candCall'.source)
                IN  /\ Cardinality(k) = 1
                    /\ \A i \in k : candSkills'[i].confidence = candCall'.saved[e].confidence
          /\ \A i \in 1..Len(candSkills) :
                (\/ candSkills[i].user # candCall'.user
                 \/ candSkills[i].source # candCall'.source
                 \/ candSkills[i].skill_name \notin SavedSkills(candCall')) =>
                    \E j \in 1..Len(candSkills') : candSkills'[j] = candSkills[i]
          /\ Len(candSkills') = Len(candSkills) +
                Cardinality({sk \in SavedSkills(candCall') :
                    RowsWithKey(candSkills, candCall'.user, sk, candCall'.source) = {}})
      ]_vars

\* the last call updated the row of a skill the user also holds from another
\* source with another confidence
C5_Witness ==
    /\ candCall.status = "returned"
    /\ \E e \in 1..Len(candCall.saved) :
          /\ ~candCall.saved[e].created
          /\ \E i \in 1..Len(candSkills) :
                /\ candSkills[i].user = candCall.user
                /\ candSkills[i].skill_name = candCall.saved[e].skill
                /\ candSkills[i].source # candCall.source
                /\ candSkills[i].confidence # candCall.saved[e].confidence

(***************************************************************************)
(* Properties of the two tables together (SpecStore).                      *)
(***************************************************************************)
\* C12: every skill_name in the JobSkill and CandidateSkill tables is a
\* canonical name of the skill dictionary, never a phrase of an input text.
C12_CanonicalNamesOnly ==
    /\ \A i \in 1..Len(jobSkills) : jobSkills[i].skill_name \in CanonicalNames
    /\ \A i \in 1..Len(candSkills) : candSkills[i].skill_name \in CanonicalNames

\* both tables hold Django, which the texts spell "django"
C12_Witness ==
    /\ \E i \in 1..Len(jobSkills) :
          jobSkills[i].job = StoreJob /\ jobSkills[i].skill_name = Django
    /\ \E i \in 1..Len(candSkills) : candSkills[i].skill_name = Django
    /\ ~IsSubstr(Django, jobRow.description)

(***************************************************************************)
(* Properties of _calculate_weight (SpecWeight).                           *)
(***************************************************************************)
\* four times base + frequencyBonus + positionBonus + contextBonus + titleBonus
\* for the arguments of fnCall (frequencyBonus = min(0.75 count, 3))
WeightSum4 ==
    LET d == fnCall.data
        earliestIsEarly ==
            \E i \in 1..Len(d.positions) :
                /\ \A j \in 1..Len(d.positions) : d.positions[i] <= d.positions[j]
                /\ 5 * d.positions[i] <= fnCall.total_tokens
        positionBonus ==
            IF fnCall.total_tokens = 0 \/ d.positions = <<>> \/ earliestIsEarly THEN 1 ELSE 0
        titleBonus ==
            IF IsSubstr(Lower(fnCall.skill), normalize_phrase(fnCall.job_title)) THEN 2 ELSE 0
    IN  20 + (IF 3 * d.count <= 12 THEN 3 * d.count ELSE 12)
           + 4 * (positionBonus + (IF d.context_hits <= 2 THEN d.context_hits ELSE 2)
                  + titleBonus)

\* r is s4/4 rounded: the nearest integer, the even one of two equally near
IsRounded(r, s4) ==
    /\ 4 * r - s4 <= 2 /\ s4 - 4 * r <= 2
    /\ (4 * r - s4 = 2 \/ s4 - 4 * r = 2) => r % 2 = 0

\* C17: weight is the rounded sum of base 5, frequency, position, context and
\* title bonus, at most 10; confidence is min(10, weight + min(contextHits, 2));
\* both lie in 0..10, also when totalTokens is 0 (the call returns a result
\* for every argument drawn).
C17_WeightFormula ==
    fnCall.done =>
        /\ \E r \in 0..20 :
              /\ IsRounded(r, WeightSum4)
              /\ fnCall.result.weight = IF r <= 10 THEN r ELSE 10
        /\ fnCall.result.confidence =
              (IF fnCall.result.weight + (IF fnCall.data.context_hits <= 2
                                          THEN fnCall.data.context_hits ELSE 2) <= 10
               THEN fnCall.result.weight + (IF fnCall.data.context_hits <= 2
                                            THEN fnCall.data.context_hits ELSE 2)
               ELSE 10)
        /\ fnCall.result.weight \in 0..10
        /\ fnCall.result.confidence \in 0..10
        /\ fnCall.result.skill = fnCall.skill

\* total_tokens is 0, the sum ends in .75 and is rounded up, and the context
\* bonus lifts the confidence above the weight
C17_Witness ==
    /\ fnCall.done
    /\ fnCall.total_tokens = 0
    /\ fnCall.data.positions # <<>>
    /\ WeightSum4 % 4 = 3
    /\ 4 * fnCall.result.weight = WeightSum4 + 1
    /\ fnCall.result.confidence > fnCall.result.weight

\* a tie: the sum ends in .5 and goes to the even integer below
C17_WitnessTie ==
    /\ fnCall.done
    /\ WeightSum4 % 4 = 2
    /\ 4 * fnCall.result.weight = WeightSum4 - 2

\* the clamp: the rounded sum is above 10
C17_WitnessClamp ==
    /\ fnCall.done
    /\ WeightSum4 > 42
    /\ fnCall.result.weight = 10

(***************************************************************************)
(* Properties of the accumulator (SpecAccumulate).                         *)
(***************************************************************************)
\* the two lists hold the same positions, each as often
SamePositions(p, q) ==
    /\ Len(p) = Len(q)
    /\ \A v \in {p[i] : i \in 1..Len(p)} \cup {q[i] : i \in 1..Len(q)} :
          Cardinality({i \in 1..Len(p) : p[i] = v}) =
          Cardinality({i \in 1..Len(q) : q[i] = v})

\* entry a of one run and entry b of the other are the same statistics
SameStatistics(a, b) ==
    /\ a.skill = b.skill
    /\ a.count = b.count
    /\ a.context_hits = b.context_hits
    /\ SamePositions(a.positions, b.positions)
    /\ \A job_title \in WeightTitles :
          _calculate_weight(a.skill, a, Len(fnCall.triples), job_title) =
          _calculate_weight(b.skill, b, Len(fnCall.triples), job_title)

\* C18: the same triples fed in another order give, for every skill, the same
\* count, the same positions, the same context hits, and so the same weight
\* and confidence.
C18_OrderIndependent ==
    fnCall.done =>
        /\ Len(fnCall.first) = Len(fnCall.second)
        /\ \A i \in 1..Len(fnCall.first) :
              \E j \in 1..Len(fnCall.second) :
                  SameStatistics(fnCall.first[i], fnCall.second[j])

\* three triples fed backwards, two of them for one skill at different
\* positions and only one of these in a sentence with a context keyword
C18_Witness ==
    /\ fnCall.done
    /\ Len(fnCall.triples) = 3
    /\ fnCall.order = <<3, 2, 1>>
    /\ Len(fnCall.first) = 2
    /\ \E i \in 1..Len(fnCall.first) :
          /\ fnCall.first[i].count = 2
          /\ fnCall.first[i].context_hits = 1
          /\ fnCall.first[i].positions[1] # fnCall.first[i].positions[2]
    /\ fnCall.first[1].skill # fnCall.second[1].skill

(***************************************************************************)
(* Properties of apply_job (SpecApply).                                    *)
(***************************************************************************)
ExtractionEvents == {"cover_letter", "cover_letter_raised", "resume", "resume_raised"}
ExtractionRaised(call) ==
    \E i \in 1..Len(call.trace) : call.trace[i] \in {"cover_letter_raised", "resume_raised"}

\* C21: the candidate-skill extraction runs only after the application is
\* saved; when the extraction from the cover letter or the resume raised, the
\* application stays stored and the request ends reporting success.
C21_BestEffortExtraction ==
    applyCall.pc # "idle" =>
        /\ (\/ applyCall.pc \in {"cover_letter", "resume"}
            \/ \E i \in 1..Len(applyCall.trace) : applyCall.trace[i] \in ExtractionEvents)
              => /\ applyCall.trace[1] = "saved"
                 /\ ApplicationRow(applyCall) \in applications
        /\ ExtractionRaised(applyCall) =>
              /\ ApplicationRow(applyCall) \in applications
              /\ applyCall.pc \in {"success", "done"}
              /\ applyCall.pc = "done" => applyCall.response = "success"

\* a request whose extraction from the cover letter raised, ended
C21_Witness ==
    /\ applyCall.pc = "done"
    /\ applyCall.trace = <<"saved", "cover_letter_raised">>
    /\ applyCall.response = "success"

\* a request whose extraction from the resume raised after the skills of the
\* cover letter were stored, ended
C21_WitnessResume ==
    /\ applyCall.pc = "done"
    /\ applyCall.trace = <<"saved", "cover_letter", "resume_raised">>
    /\ candSkills # <<>>
    /\ applyCall.response = "success"

(***************************************************************************)
(* Properties of concurrent save_job_skills calls (SpecRace).              *)
(***************************************************************************)
BothEnded == \A c \in Connections : saveCalls.call[c].pc = "done"
SomeReturned == \E c \in Connections : saveCalls.call[c].status = "returned"
OneRowPerSkill(table, j) ==
    \A a, b \in 1..Len(StoredSkillRows(table, j)) :
        StoredSkillRows(table, j)[a].skill_name = StoredSkillRows(table, j)[b].skill_name
            => a = b

\* C23: when two save_job_skills calls for the same job have run and ended,
\* at least one of them returning, the stored skill set of the job is the
\* payload of one of the two calls, with one row per skill.
C23_OnePayloadWins ==
    (BothEnded /\ SomeReturned) =>
        /\ \E c \in Connections :
              StoredExactly(jobSkills, StoreJob, saveCalls.call[c].payload)
        /\ OneRowPerSkill(jobSkills, StoreJob)

\* the part of C23 that holds: never two rows of the job for one skill
C23_OneRowPerSkill == OneRowPerSkill(jobSkills, StoreJob)

\* the same statement for a database with one writer at a time
C23_OneWriter == saveCalls.backend = "one_writer" => C23_OnePayloadWins

====
